---- MODULE Spec2Model ----
(***************************************************************************)
(* A model of the prediction core of the stock-prediction system:          *)
(*   - the trading calendar      (backend/utils/trading_days.py)           *)
(*   - the feature engine        (backend/features/feature_engineer.py)    *)
(*   - the horizon predictor     (backend/models/predictor.py) and the     *)
(*     training flows that drive it (scripts/train_models.py,              *)
(*     train_and_predict.py)                                               *)
(*   - the background tasks      (backend/services/background_tasks.py)    *)
(*   - the daily update          (scripts/daily_update.py,                 *)
(*     scripts/generate_predictions.py).                                   *)
(* Each component has its own specification (SpecCal, SpecFE, SpecCausal,  *)
(* SpecPred, SpecFlows, SpecStore, SpecInfer, SpecLabels, SpecTrain,       *)
(* SpecTasks, SpecSched, SpecDaily); the variables of the other components *)
(* stay at their initial value.                                            *)
(***************************************************************************)
EXTENDS Integers, Sequences, FiniteSets, TLC

VARIABLES
    cal_op,     \* trading calendar: the last call, its arguments and its result
    fe_df,      \* feature engine: the caller's input frame
    fe_res,     \* feature engine: outcome of calculate_all_features(fe_df)
    pred,       \* predictor objects: in-memory state of each StockPredictor
    disk,       \* ml_models/trained_models: file name -> model package
    clock,      \* wall clock in seconds, as read by save_models
    runs,       \* number of training runs started so far (identifies a run)
    calls,      \* number of calls made on the predictor and its files so far
    last,       \* predictor: the last call, its arguments, outcome and pre-state
    saver,      \* a process inside save_models: its position and its package
    loader,     \* a process calling load_models: what joblib.load found
    infer,      \* one predict call in detail: artifact, live row and result
    labels,     \* one prepare_training_data call: horizon profile and result
    train,      \* one train_models call in detail: the matrix and its partitions
    causal,     \* two series with a common past: the derived row of each
    mgr,        \* BackgroundTaskManager, its tasks and the start/stop coroutines
    sched,      \* one _daily_update_scheduler task and the clock it reads
    daily       \* one run_daily_update: its position and the predictions table

vars == <<cal_op, fe_df, fe_res, pred, disk, clock, runs, calls, last,
          saver, loader, infer, labels, train, causal, mgr, sched, daily>>

\* dict.get(key, default)
Get(map, key, default) == IF key \in DOMAIN map THEN map[key] ELSE default

Max(a, b) == IF a >= b THEN a ELSE b

(***************************************************************************)
(* Trading calendar.                                                       *)
(* A datetime is [day, tod]: day counts calendar days from Friday          *)
(* 2025-12-19 (day 0), tod is the time of day (0 = midnight).              *)
(***************************************************************************)

\* weekday() of day 0 (Monday = 0): 2025-12-19 is a Friday
BaseWeekday == 4

\* USFederalHolidayCalendar().holidays() inside the modelled window:
\* 2025-12-25 (Thu), 2026-01-01 (Thu), 2026-01-19 (Mon), 2026-02-16 (Mon);
\* the next one is 2026-05-25 (day 157), beyond every date the model reaches.
Holidays == {6, 13, 31, 59}

\* Bounds of the calendar inputs
MaxStart == 40
MaxDay == 70
MaxN == 21
MaxTod == 1

Dates(maxday) == [day : 0..maxday, tod : 0..MaxTod]

Midnight(day) == [day |-> day, tod |-> 0]

\* datetime comparison
DtLe(a, b) == a.day < b.day \/ (a.day = b.day /\ a.tod <= b.tod)

weekday(dt) == (dt.day + BaseWeekday) % 7

\* np.is_busday under the busdaycalendar CustomBusinessDay builds from
\* calendar.holidays() (weekmask Mon-Fri)
is_busday(day) == (day + BaseWeekday) % 7 < 5 /\ day \notin Holidays

\* calendar.holidays(start, end): the holidays (midnight timestamps) in the
\* closed datetime interval [start, end]
holidays(start, end) ==
    {h \in Holidays : DtLe(start, Midnight(h)) /\ DtLe(Midnight(h), end)}

RECURSIVE RollForward(_)
RollForward(day) == IF is_busday(day) THEN day ELSE RollForward(day + 1)

RECURSIVE RollBackward(_)
RollBackward(day) == IF is_busday(day) THEN day ELSE RollBackward(day - 1)

RECURSIVE StepBusdays(_, _)
StepBusdays(day, n) ==
    IF n = 0 THEN day ELSE StepBusdays(RollForward(day + 1), n - 1)

\* mutant of busday_offset: n = 0 rolls backward like n > 0
busday_offset_RollBack(day, n, roll) == StepBusdays(RollBackward(day), n)

\* np.busday_offset(day, n, roll): roll to a business day, then advance n (n >= 0)
busday_offset(day, n, roll) ==
    StepBusdays(IF roll = "forward" THEN RollForward(day) ELSE RollBackward(day), n)

\* mutant of add_trading_days: plain calendar-day arithmetic
add_trading_days_Calendar(start_date, num_days) ==
    [day |-> start_date.day + num_days, tod |-> start_date.tod]

\* TradingDayCalculator.add_trading_days: start_date + num_days * CustomBusinessDay;
\* the offset rolls forward when n <= 0 and backward otherwise, and keeps the time
add_trading_days(start_date, num_days) ==
    [day |-> busday_offset(start_date.day, num_days,
                           IF num_days <= 0 THEN "forward" ELSE "backward"),
     tod |-> start_date.tod]

trading_days_map == ("intraday" :> 1) @@ ("swing" :> 5) @@ ("position" :> 20)

\* TradingDayCalculator.get_prediction_target_date
get_prediction_target_date(prediction_type, start_date) ==
    add_trading_days(start_date, Get(trading_days_map, prediction_type, 1))

\* mutant of is_trading_day: the holiday check is missing
is_trading_day_NoHoliday(date) == weekday(date) < 5

\* TradingDayCalculator.is_trading_day
is_trading_day(date) ==
    IF weekday(date) >= 5 THEN FALSE
    ELSE IF Cardinality(holidays(date, date)) > 0 THEN FALSE
    ELSE TRUE

RECURSIVE GenerateRange(_, _, _)
GenerateRange(cur, end, count) ==
    IF cur > end THEN count
    ELSE GenerateRange(RollForward(cur + 1), end, count + 1)

\* mutant of count_trading_days_between: the end date is excluded
count_trading_days_between_Open(start_date, end_date) ==
    GenerateRange(RollForward(start_date.day), end_date.day - 1, 0)

\* TradingDayCalculator.count_trading_days_between: len(pd.bdate_range(start, end,
\* freq=business_day)); bdate_range normalizes both ends to midnight, rolls the
\* start forward onto the offset and yields while cur <= end
count_trading_days_between(start_date, end_date) ==
    GenerateRange(RollForward(start_date.day), end_date.day, 0)

\* StockPredictor.__init__: the names a predictor can be constructed with are
\* any string; "weekly" stands for a name outside the three known classes
PredictionTypes == {"intraday", "swing", "position", "weekly"}

horizons == ("intraday" :> 1) @@ ("swing" :> 5) @@ ("position" :> 20)

\* StockPredictor.__init__: self.forecast_days
forecast_days_of(prediction_type) == Get(horizons, prediction_type, 5)

NoDate == [day |-> 0 - 1, tod |-> 0]

CalIdle ==
    [op |-> "none", start |-> NoDate, end |-> NoDate, n |-> 0,
     ptype |-> "none", date |-> NoDate, flag |-> FALSE, count |-> 0]

InitCal == cal_op = CalIdle

\* the calendar shares no state with the other components
CalFrame ==
    UNCHANGED <<fe_df, fe_res, pred, disk, clock, runs, calls, last,
                saver, loader, infer, labels, train, causal, mgr, sched,
                daily>>

AddTradingDays ==
    /\ cal_op = CalIdle
    /\ CalFrame
    /\ \E d \in Dates(MaxStart), n \in 0..MaxN :
        cal_op' = [CalIdle EXCEPT !.op = "add_trading_days", !.start = d, !.n = n,
                                  !.date = add_trading_days(d, n)]

GetPredictionTargetDate ==
    /\ cal_op = CalIdle
    /\ CalFrame
    /\ \E d \in Dates(MaxStart), p \in PredictionTypes :
        cal_op' = [CalIdle EXCEPT !.op = "get_prediction_target_date", !.start = d,
                                  !.ptype = p,
                                  !.date = get_prediction_target_date(p, d)]

IsTradingDay ==
    /\ cal_op = CalIdle
    /\ CalFrame
    /\ \E d \in Dates(MaxDay) :
        cal_op' = [CalIdle EXCEPT !.op = "is_trading_day", !.start = d,
                                  !.flag = is_trading_day(d)]

CountTradingDaysBetween ==
    /\ cal_op = CalIdle
    /\ CalFrame
    /\ \E s \in Dates(MaxStart), e \in Dates(MaxDay) :
        cal_op' = [CalIdle EXCEPT !.op = "count_trading_days_between", !.start = s,
                                  !.end = e,
                                  !.count = count_trading_days_between(s, e)]

\* the caller has consumed the result
CalReturn ==
    /\ cal_op # CalIdle
    /\ CalFrame
    /\ cal_op' = CalIdle

NextCal ==
    \/ AddTradingDays
    \/ GetPredictionTargetDate
    \/ IsTradingDay
    \/ CountTradingDaysBetween
    \/ CalReturn

(***************************************************************************)
(* Horizon predictor.                                                      *)
(* A fitted part (feature list, scaler, model) is identified by the number *)
(* of the training run that produced it; 0 is the value the constructor    *)
(* leaves: the empty feature list, the unfitted StandardScaler, no model.  *)
(* A series is given by its number of rows; what makes a library call      *)
(* raise depends on values of the series and is an input of the call.      *)
(***************************************************************************)

\* Bounds of the predictor inputs
MaxRows == 201
MaxCalls == 5

\* FeatureEngineer.calculate_all_features: fewer rows return the input as is
MinFeatureRows == 50

\* StockPredictor.train_models: fewer labeled rows end the run
MinTrainingRows == 100

\* train_and_predict.train_models: a stock contributes only with that much history
MinHistoryRows == 200

\* The series lengths tried: around each threshold on the number of rows
RowChoices ==
    {0, MinFeatureRows - 1, MinFeatureRows, MinHistoryRows - 1, MinHistoryRows, MaxRows}
    \cup {MinTrainingRows + h - 1 : h \in {1, 5, 20}}
    \cup {MinTrainingRows + h : h \in {1, 5, 20}}

ModelNames == {"xgb_class", "lgb_class", "xgb_reg"}

NoModels == [m \in ModelNames |-> 0]

\* StockPredictor.__init__; constructed_as, trained, loaded and last_train are
\* history: the prediction_type the constructor was given, whether a training
\* run of this object has completed, whether load_models has replaced its state,
\* and how its most recent train_models call ended
StockPredictor(prediction_type) ==
    [prediction_type |-> prediction_type,
     constructed_as  |-> prediction_type,
     models          |-> NoModels,
     scaler          |-> 0,
     feature_names   |-> 0,
     forecast_days   |-> forecast_days_of(prediction_type),
     trained         |-> FALSE,
     loaded          |-> FALSE,
     last_train      |-> "none"]

\* StockPredictor._get_threshold, in percent
thresholds == [intraday |-> 1, swing |-> 2, position |-> 5]

get_threshold(self) == Get(thresholds, self.prediction_type, 2)

\* StockPredictor.prepare_training_data: rows left after the label columns are
\* built with shift(-forecast_days) and the rows without a future close dropped
\* (the feature engine keeps the number of rows, also when it returns its input)
LabeledRows(rows, forecast_days) == Max(rows - forecast_days, 0)

\* What can make a step of a training run raise:
\*   features   pd.qcut in the feature engine (ValueError), rows >= 50 only
\*   xgb_class  XGBClassifier.fit: every training label is 1 (ValueError)
\*   lgb_class  LGBMClassifier.fit: the held-out labels hold a class the training
\*              labels lack (ValueError)
\*   xgb_reg    XGBRegressor.fit: an infinite target_return (a zero close)
FailPoints == {"none", "features", "xgb_class", "lgb_class", "xgb_reg"}

Outcome(p, err, ret) == [pred |-> p, err |-> err, ret |-> ret]

\* mutant of train_models: the labeled-row check comes after the feature
\* selection instead of before it
train_models_LateCheck(self, rows, fail, run) ==
    IF rows >= MinFeatureRows /\ fail = "features"
    THEN Outcome(self, "ValueError", "none")
    ELSE IF LabeledRows(rows, self.forecast_days) < MinTrainingRows
    THEN Outcome([self EXCEPT !.feature_names = run], "none", "empty")
    ELSE Outcome([self EXCEPT !.feature_names = run, !.scaler = run,
                              !.models = [m \in ModelNames |-> run],
                              !.trained = TRUE], "none", "metrics")

\* StockPredictor.train_models
train_models(self, rows, fail, run) ==
    IF rows >= MinFeatureRows /\ fail = "features"
    THEN Outcome(self, "ValueError", "none")
    ELSE IF LabeledRows(rows, self.forecast_days) < MinTrainingRows
    THEN Outcome(self, "none", "empty")
    ELSE
      LET s1 == [self EXCEPT !.feature_names = run, !.scaler = run]
          s2 == [s1 EXCEPT !.models["xgb_class"] = run]
          s3 == [s2 EXCEPT !.models["lgb_class"] = run]
          s4 == [s3 EXCEPT !.models["xgb_reg"] = run]
      IN  IF fail = "xgb_class" THEN Outcome(s1, "ValueError", "none")
          ELSE IF fail = "lgb_class" THEN Outcome(s2, "ValueError", "none")
          ELSE IF fail = "xgb_reg" THEN Outcome(s3, "ValueError", "none")
          ELSE Outcome([s4 EXCEPT !.trained = TRUE], "none", "metrics")

\* mutant of predict: an unfitted scaler passes the row through and a missing
\* model contributes a default, so a result is returned
predict_Defaults(self, rows, fail) ==
    IF rows >= MinFeatureRows /\ fail = "features"
    THEN Outcome(self, "ValueError", "none")
    ELSE IF self.feature_names # 0 /\ rows < MinFeatureRows
    THEN Outcome(self, "KeyError", "none")
    ELSE Outcome(self, "none", "prediction")

\* mutant of predict: a series too short for the feature engine gets a result
\* computed from the columns it has
predict_ShortDefaults(self, rows, fail) ==
    IF rows >= MinFeatureRows /\ fail = "features"
    THEN Outcome(self, "ValueError", "none")
    ELSE IF rows < MinFeatureRows
    THEN Outcome(self, "none", "prediction")
    ELSE IF self.scaler = 0
    THEN Outcome(self, "NotFittedError", "none")
    ELSE IF \E m \in ModelNames : self.models[m] = 0
    THEN Outcome(self, "KeyError", "none")
    ELSE Outcome(self, "none", "prediction")

\* mutant of predict: a successful call leaves the scaler refitted on the live row
predict_RefitsScaler(self, rows, fail) ==
    IF rows >= MinFeatureRows /\ fail = "features"
    THEN Outcome(self, "ValueError", "none")
    ELSE IF self.feature_names # 0 /\ rows < MinFeatureRows
    THEN Outcome(self, "KeyError", "none")
    ELSE IF self.scaler = 0
    THEN Outcome(self, "NotFittedError", "none")
    ELSE IF \E m \in ModelNames : self.models[m] = 0
    THEN Outcome(self, "KeyError", "none")
    ELSE Outcome([self EXCEPT !.scaler = 0], "none", "prediction")

\* StockPredictor.predict
predict(self, rows, fail) ==
    IF rows >= MinFeatureRows /\ fail = "features"
    THEN Outcome(self, "ValueError", "none")
    \* latest[self.feature_names]: the input came back without feature columns
    ELSE IF self.feature_names # 0 /\ rows < MinFeatureRows
    THEN Outcome(self, "KeyError", "none")
    \* self.scaler.transform(X)
    ELSE IF self.scaler = 0
    THEN Outcome(self, "NotFittedError", "none")
    \* self.models['xgb_class'], self.models['lgb_class'], self.models['xgb_reg']
    ELSE IF \E m \in ModelNames : self.models[m] = 0
    THEN Outcome(self, "KeyError", "none")
    ELSE Outcome(self, "none", "prediction")

\* Files of model_dir: <prediction_type>_model_<timestamp>.pkl and
\* <prediction_type>_model_latest.pkl
StampedFile(prediction_type, stamp) ==
    [ptype |-> prediction_type, kind |-> "stamped", stamp |-> stamp]

LatestFile(prediction_type) ==
    [ptype |-> prediction_type, kind |-> "latest", stamp |-> 0]

\* save_models: model_package
ModelPackage(self) ==
    [models          |-> self.models,
     scaler          |-> self.scaler,
     feature_names   |-> self.feature_names,
     prediction_type |-> self.prediction_type,
     forecast_days   |-> self.forecast_days]

\* StockPredictor.save_models: joblib.dump to the timestamped file, then to latest
save_models(self, files, now) ==
    LET written == {StampedFile(self.prediction_type, now),
                    LatestFile(self.prediction_type)}
    IN  [f \in (DOMAIN files) \cup written |->
            IF f \in written THEN ModelPackage(self) ELSE files[f]]

\* the default of load_models' parameter: model_file = None
None == [ptype |-> "none", kind |-> "none", stamp |-> 0]

\* mutant of load_models: the feature names of the package are not restored
load_models_KeepsFeatureNames(self, files, model_file_arg) ==
    LET model_file == IF model_file_arg = None
                      THEN LatestFile(self.prediction_type) ELSE model_file_arg
    IN
    IF model_file \notin DOMAIN files
    THEN Outcome(self, "FileNotFoundError", "none")
    ELSE LET model_package == files[model_file] IN
         Outcome([self EXCEPT !.models = model_package.models,
                              !.scaler = model_package.scaler,
                              !.prediction_type = model_package.prediction_type,
                              !.forecast_days = model_package.forecast_days,
                              !.loaded = TRUE], "none", "none")

\* StockPredictor.load_models(model_file)
load_models(self, files, model_file_arg) ==
    LET model_file == IF model_file_arg = None
                      THEN LatestFile(self.prediction_type) ELSE model_file_arg
    IN
    IF model_file \notin DOMAIN files
    THEN Outcome(self, "FileNotFoundError", "none")
    ELSE LET model_package == files[model_file] IN
         Outcome([self EXCEPT !.models = model_package.models,
                              !.scaler = model_package.scaler,
                              !.feature_names = model_package.feature_names,
                              !.prediction_type = model_package.prediction_type,
                              !.forecast_days = model_package.forecast_days,
                              !.loaded = TRUE], "none", "none")

NoFiles == [f \in {} |-> 0]

\* What <prediction_type>_model_latest.pkl holds
LatestOf(files, prediction_type) ==
    IF LatestFile(prediction_type) \in DOMAIN files
    THEN files[LatestFile(prediction_type)]
    ELSE [models |-> NoModels, scaler |-> 0, feature_names |-> 0,
          prediction_type |-> "absent", forecast_days |-> 0]

\* The record of a call: the object it acted on before and after it, its outcome,
\* the latest file of the object's class before it, and what is known of the
\* series it was given (short: the feature engine returns it as is; insufficient:
\* it yields fewer labeled rows than training needs)
Call(op, run, before, out, rows) ==
    [op |-> op, run |-> run, before |-> before, after |-> out.pred,
     err |-> out.err, ret |-> out.ret,
     latest_before |-> LatestOf(disk, before.prediction_type),
     short |-> rows < MinFeatureRows,
     insufficient |-> LabeledRows(rows, before.forecast_days) < MinTrainingRows]

\* History kept with the object: how its most recent train_models call ended
Trained(out) ==
    [out EXCEPT !.pred.last_train =
        IF out.err # "none" THEN "raised"
        ELSE IF out.ret = "empty" THEN "empty" ELSE "metrics"]

InitPred ==
    /\ pred = StockPredictor("swing")
    /\ disk = NoFiles
    /\ clock = 0
    /\ runs = 0
    /\ calls = 0
    /\ last = Call("none", 0, pred, Outcome(pred, "none", "none"), MaxRows)

\* One more call, within the budget; the other components are not touched
Step ==
    /\ calls < MaxCalls
    /\ calls' = calls + 1
    /\ UNCHANGED <<cal_op, fe_df, fe_res, saver, loader, infer, labels,
                 train, causal, mgr, sched, daily>>

\* predictor = StockPredictor(prediction_type=...)
Construct ==
    /\ Step
    /\ \E t \in PredictionTypes :
        /\ pred' = StockPredictor(t)
        /\ last' = Call("StockPredictor", 0, pred', Outcome(pred', "none", "none"), MaxRows)
        /\ UNCHANGED <<disk, clock, runs>>

\* predictor.train_models(df)
TrainModels ==
    /\ Step
    /\ runs' = runs + 1
    /\ \E rows \in RowChoices, fail \in FailPoints :
        LET out == Trained(train_models(pred, rows, fail, runs')) IN
            /\ pred' = out.pred
            /\ last' = Call("train_models", runs', pred, out, rows)
    /\ UNCHANGED <<disk, clock>>

\* predictor.save_models()
SaveModels ==
    /\ Step
    /\ disk' = save_models(pred, disk, clock)
    /\ last' = Call("save_models", 0, pred, Outcome(pred, "none", "file"), MaxRows)
    /\ UNCHANGED <<pred, clock, runs>>

\* predictor.load_models() or predictor.load_models(model_file) with a file of
\* model_dir
LoadModels ==
    /\ Step
    /\ \E model_file \in {None} \cup DOMAIN disk :
        LET out == load_models(pred, disk, model_file) IN
            /\ pred' = out.pred
            /\ last' = Call(IF model_file = None THEN "load_models" ELSE "load_models_file",
                            0, pred, out, MaxRows)
    /\ UNCHANGED <<disk, clock, runs>>

\* predictor.predict(df)
Predict ==
    /\ Step
    /\ \E rows \in RowChoices, fail \in {"none", "features"} :
        LET out == predict(pred, rows, fail) IN
            /\ pred' = out.pred
            /\ last' = Call("predict", 0, pred, out, rows)
    /\ UNCHANGED <<disk, clock, runs>>

TimeFrames == {"intraday", "swing", "position"}

\* scripts/train_models.py, train_all_models: one pass of the loop over the
\* timeframes; save_models only when train_models returned metrics
\* (fetch_training_data keeps the stocks with at least 50 prices)
TrainAllModels ==
    /\ Step
    /\ runs' = runs + 1
    /\ \E t \in TimeFrames, rows \in {r \in RowChoices : r >= MinFeatureRows},
          fail \in FailPoints :
        LET predictor == StockPredictor(t)
            out == Trained(train_models(predictor, rows, fail, runs'))
        IN  /\ disk' = IF out.err = "none" /\ out.ret # "empty"
                       THEN save_models(out.pred, disk, clock) ELSE disk
            /\ last' = Call("train_all_models", runs', predictor, out, rows)
    /\ UNCHANGED <<pred, clock>>

\* train_and_predict.py, train_models: one pass of the loop over the timeframes;
\* save_models follows train_models whatever it returned, an exception ends the
\* function in its handler (only stocks with at least 200 prices are used)
TrainAndPredict ==
    /\ Step
    /\ runs' = runs + 1
    /\ \E t \in TimeFrames, rows \in {r \in RowChoices : r >= MinHistoryRows},
          fail \in FailPoints :
        LET predictor == StockPredictor(t)
            out == Trained(train_models(predictor, rows, fail, runs'))
        IN  /\ disk' = IF out.err = "none"
                       THEN save_models(out.pred, disk, clock) ELSE disk
            /\ last' = Call("train_and_predict", runs', predictor, out, rows)
    /\ UNCHANGED <<pred, clock>>

\* a second passes on the wall clock
Tick ==
    /\ Step
    /\ clock' = clock + 1
    /\ UNCHANGED <<pred, disk, runs, last>>

(***************************************************************************)
(* The feature engine (backend/features/feature_engineer.py).              *)
(*                                                                         *)
(* A frame maps a column name to a sequence with one cell per row.  The    *)
(* input columns hold prices and volumes; NaN is the undefined cell.  A    *)
(* derived column holds 1 where pandas computes a number and NaN where it  *)
(* leaves the cell undefined; the number itself is kept only where the     *)
(* code branches on it (returns and volatility_20, which pd.qcut bins).    *)
(* The input series have no gaps, so the NaNs of a column are its leading  *)
(* rows and a window holds a NaN exactly when its oldest cell is one.      *)
(***************************************************************************)
MaxLen == 201

NaN == 0 - 1000000

required_cols == {"open", "high", "low", "close", "volume"}

Rows(s) == 1..Len(s)

Defined(b) == IF b THEN 1 ELSE NaN

Column(s) == SubSeq(s, 1, Len(s))

\* Series.shift(periods)
shift(s, periods) ==
    Column([i \in Rows(s) |-> IF i > periods THEN s[i - periods] ELSE NaN])

\* a + b, a - b, a * b, a / b on aligned columns
arith(a, b) ==
    Column([i \in Rows(a) |-> Defined(a[i] # NaN /\ b[i] # NaN)])

\* Series.pct_change(periods)
pct_change(s, periods) == arith(s, shift(s, periods))

\* Series.rolling(window).mean() / std() / sum() / max() / min():
\* min_periods = window
rolling(s, window) ==
    Column([i \in Rows(s) |->
              Defined(i >= window /\ s[i - window + 1] # NaN /\ s[i] # NaN)])

\* Series.ewm(..., min_periods = window, adjust = False).mean(), the form ta
\* uses with fillna = False: a number once window observations were seen
ewm(s, window) ==
    Column([i \in Rows(s) |-> Defined(i >= window /\ s[i - window + 1] # NaN)])

\* (condition).astype(int): a comparison with NaN is False, the cell is 0 or 1
astype_int(s) == Column([i \in Rows(s) |-> 1])

\* ta indicators that start from a zero-filled array (ATR, ADX, OBV)
zero_filled(s) == Column([i \in Rows(s) |-> 1])

\* Series.where(cond, 0)
where_else_zero(s) == Column([i \in Rows(s) |-> 1])

\* Series.cumsum(): NaN cells stay NaN and are skipped
cumsum(s) == s

\* close.pct_change() in basis points
returns_value(close) ==
    Column([i \in Rows(close) |->
              IF i > 1 THEN (10000 * (close[i] - close[i - 1])) \div close[i - 1]
              ELSE NaN])

RECURSIVE WindowSum(_, _, _, _)
WindowSum(s, lo, hi, power) ==
    IF lo > hi THEN 0
    ELSE (IF power = 2 THEN s[lo] * s[lo] ELSE s[lo])
         + WindowSum(s, lo + 1, hi, power)

\* returns.rolling(window).std(), kept as window * sum(r^2) - sum(r)^2, which
\* orders the cells as the standard deviation does
rolling_std_value(r, window) ==
    Column([i \in Rows(r) |->
              IF i >= window /\ r[i - window + 1] # NaN
              THEN window * WindowSum(r, i - window + 1, i, 2)
                   - WindowSum(r, i - window + 1, i, 1)
                     * WindowSum(r, i - window + 1, i, 1)
              ELSE NaN])

\* the k-th smallest (k from 0) of the defined cells of s
OrderStatistic(s, k) ==
    LET valid == {i \in Rows(s) : s[i] # NaN}
        values == {s[i] : i \in valid}
    IN  CHOOSE x \in values :
            /\ Cardinality({i \in valid : s[i] < x}) <= k
            /\ k < Cardinality({i \in valid : s[i] <= x})

\* pd.qcut's bin edges Series.quantile([0, 1/3, 2/3, 1]) (linear
\* interpolation), each multiplied by 3; no edge when no cell is defined
QuantileEdges(s) ==
    LET m == Cardinality({i \in Rows(s) : s[i] # NaN})
        edge(q) ==
            LET pos == (m - 1) * q
                f == pos \div 3
                r == pos % 3
            IN  IF r = 0 THEN 3 * OrderStatistic(s, f)
                ELSE (3 - r) * OrderStatistic(s, f) + r * OrderStatistic(s, f + 1)
    IN  IF m = 0 THEN {} ELSE {edge(q) : q \in 0..3}

\* pd.qcut(s, q=3, labels=[0, 1, 2], duplicates='drop') raises ValueError
\* ("Bin labels must be one fewer than the number of bin edges") when
\* dropping the duplicate edges leaves fewer than 4 of them
QcutRaises(s) == Cardinality(QuantileEdges(s)) # 4

\* the labels of pd.qcut as floats; NaN cells stay NaN
qcut(s) == Column([i \in Rows(s) |-> Defined(s[i] # NaN)])

\* Basic price-based features
add_price_features(df) ==
    LET close == df["close"]
    IN  ("returns" :> pct_change(close, 1))
        @@ ("returns_5d" :> pct_change(close, 5))
        @@ ("returns_10d" :> pct_change(close, 10))
        @@ ("returns_20d" :> pct_change(close, 20))
        @@ ("price_momentum_5" :> arith(close, shift(close, 5)))
        @@ ("price_momentum_10" :> arith(close, shift(close, 10)))
        @@ ("price_momentum_20" :> arith(close, shift(close, 20)))
        @@ ("hl_pct" :> arith(arith(df["high"], df["low"]), close))
        @@ ("co_pct" :> arith(arith(close, df["open"]), df["open"]))
        @@ df

\* Momentum indicators
add_momentum_features(df) ==
    LET close == df["close"]
        stoch_k == arith(close, arith(rolling(df["high"], 14), rolling(df["low"], 14)))
    IN  ("rsi_7" :> ewm(close, 7))
        @@ ("rsi_14" :> ewm(close, 14))
        @@ ("rsi_21" :> ewm(close, 21))
        @@ ("stoch_k" :> stoch_k)
        @@ ("stoch_d" :> rolling(stoch_k, 3))
        @@ ("roc_5" :> pct_change(close, 5))
        @@ ("roc_10" :> pct_change(close, 10))
        @@ ("roc_20" :> pct_change(close, 20))
        @@ ("williams_r" :> arith(arith(rolling(df["high"], 14), close),
                                  arith(rolling(df["high"], 14), rolling(df["low"], 14))))
        @@ df

\* Trend indicators
add_trend_features(df) ==
    LET close == df["close"]
        sma(period) == rolling(close, period)
        ema(period) == ewm(close, period)
        macd == arith(ewm(close, 12), ewm(close, 26))
        macd_signal == ewm(macd, 9)
    IN  ("sma_5" :> sma(5)) @@ ("ema_5" :> ema(5))
        @@ ("sma_10" :> sma(10)) @@ ("ema_10" :> ema(10))
        @@ ("sma_20" :> sma(20)) @@ ("ema_20" :> ema(20))
        @@ ("sma_50" :> sma(50)) @@ ("ema_50" :> ema(50))
        @@ ("sma_200" :> sma(200)) @@ ("ema_200" :> ema(200))
        @@ ("dist_sma_20" :> arith(arith(close, sma(20)), sma(20)))
        @@ ("dist_sma_50" :> arith(arith(close, sma(50)), sma(50)))
        @@ ("dist_sma_200" :> arith(arith(close, sma(200)), sma(200)))
        @@ ("sma_cross_50_200" :> arith(arith(sma(50), sma(200)), sma(200)))
        @@ ("ema_cross_12_26" :> arith(arith(ema(5), ema(20)), ema(20)))
        @@ ("macd" :> macd)
        @@ ("macd_signal" :> macd_signal)
        @@ ("macd_diff" :> arith(macd, macd_signal))
        @@ ("adx" :> zero_filled(close))
        @@ ("adx_pos" :> zero_filled(close))
        @@ ("adx_neg" :> zero_filled(close))
        @@ df

\* Volatility indicators
add_volatility_features(df) ==
    LET close == df["close"]
        mavg == rolling(close, 20)
        mstd == rolling(close, 20)
        hband == arith(mavg, mstd)
        lband == arith(mavg, mstd)
    IN  ("bb_high_20" :> hband)
        @@ ("bb_mid_20" :> mavg)
        @@ ("bb_low_20" :> lband)
        @@ ("bb_width_20" :> arith(arith(hband, lband), mavg))
        @@ ("bb_pct_20" :> arith(arith(close, lband), arith(hband, lband)))
        @@ ("atr_7" :> zero_filled(close))
        @@ ("atr_14" :> zero_filled(close))
        @@ ("atr_21" :> zero_filled(close))
        @@ ("volatility_10" :> rolling(df["returns"], 10))
        @@ ("volatility_20" :> rolling(df["returns"], 20))
        @@ ("volatility_30" :> rolling(df["returns"], 30))
        @@ df

\* Volume-based features
add_volume_features(df) ==
    LET close == df["close"]
        volume == df["volume"]
        obv == zero_filled(close)
    IN  ("volume_change" :> pct_change(volume, 1))
        @@ ("volume_ma_5" :> rolling(volume, 5))
        @@ ("volume_ma_10" :> rolling(volume, 10))
        @@ ("volume_ma_20" :> rolling(volume, 20))
        @@ ("volume_ratio_5" :> arith(volume, rolling(volume, 5)))
        @@ ("volume_ratio_10" :> arith(volume, rolling(volume, 10)))
        @@ ("obv" :> obv)
        @@ ("obv_mean" :> rolling(obv, 20))
        @@ ("vpt" :> cumsum(arith(arith(arith(close, shift(close, 1)),
                                        shift(close, 1)), volume)))
        @@ df

\* Pattern recognition features
add_pattern_features(df) ==
    LET candle == arith(arith(df["close"], df["open"]), arith(df["high"], df["low"]))
    IN  ("doji" :> astype_int(candle))
        @@ ("hammer" :> astype_int(candle))
        @@ ("higher_high" :> astype_int(arith(df["high"], shift(df["high"], 1))))
        @@ ("lower_low" :> astype_int(arith(df["low"], shift(df["low"], 1))))
        @@ ("gap_up" :> astype_int(arith(df["low"], shift(df["high"], 1))))
        @@ ("gap_down" :> astype_int(arith(df["high"], shift(df["low"], 1))))
        @@ df

\* Custom features.  Raises ValueError where pd.qcut does: the caller tests
\* QcutRaises on the value of volatility_20 before it takes the frame.
add_custom_features(df) ==
    LET close == df["close"]
        money_flow == arith(arith(arith(df["high"], df["low"]), close), df["volume"])
        positive_mf == rolling(where_else_zero(money_flow), 14)
        negative_mf == rolling(where_else_zero(money_flow), 14)
    IN  ("mfi" :> arith(positive_mf, negative_mf))
        @@ ("trend_intensity" :> arith(arith(close, df["sma_20"]), df["atr_14"]))
        @@ ("volatility_regime" :> qcut(df["volatility_20"]))
        @@ ("price_acceleration" :> arith(df["returns"], shift(df["returns"], 1)))
        @@ ("volume_surge" :> astype_int(rolling(df["volume"], 20)))
        @@ ("near_20d_high" :> astype_int(arith(rolling(df["high"], 20), close)))
        @@ ("near_20d_low" :> astype_int(arith(close, rolling(df["low"], 20))))
        @@ df

\* the rows where a column holds a number
Valid(s) == {j \in Rows(s) : s[j] # NaN}

MinOf(S) == CHOOSE j \in S : \A k \in S : j <= k

MaxOf(S) == CHOOSE j \in S : \A k \in S : k <= j

\* np.inf and -np.inf where a cell holds them (a division by a zero cell)
Inf == 2000000

NegInf == 0 - Inf

\* X.replace([np.inf, -np.inf], np.nan) on a column
replace_inf(s) ==
    Column([i \in Rows(s) |-> IF s[i] = Inf \/ s[i] = NegInf THEN NaN ELSE s[i]])

\* the sum of the defined cells of s[lo..hi]
RECURSIVE SumRange(_, _, _)
SumRange(s, lo, hi) ==
    IF lo > hi THEN 0
    ELSE IF lo = hi THEN (IF s[lo] = NaN THEN 0 ELSE s[lo])
    ELSE LET mid == (lo + hi) \div 2
         IN  SumRange(s, lo, mid) + SumRange(s, mid + 1, hi)

\* DataFrame.mean() for one column: the mean of its defined cells (rounded down
\* to the unit of the cells), NaN when the column has none
column_mean(s) ==
    IF Valid(s) = {} THEN NaN
    ELSE SumRange(s, 1, Len(s)) \div Cardinality(Valid(s))

\* X.fillna(X.mean(numeric_only=True)): a NaN cell takes its column's mean
fillna_mean(X) ==
    [c \in DOMAIN X |->
        LET mean == column_mean(X[c])
        IN  Column([i \in Rows(X[c]) |-> IF X[c][i] = NaN THEN mean ELSE X[c][i]])]

\* Series.fillna(method='bfill'): a NaN cell takes the next defined cell
bfill(s) ==
    LET valid == Valid(s)
        first == IF valid = {} THEN 0 ELSE MinOf(valid)
    IN  Column([i \in Rows(s) |->
                  IF s[i] # NaN THEN s[i]
                  ELSE IF i < first THEN s[first]
                  ELSE LET later == {j \in valid : j > i}
                       IN  IF later = {} THEN NaN ELSE s[MinOf(later)]])

\* Series.fillna(method='ffill'): a NaN cell takes the last defined cell
ffill(s) ==
    LET valid == Valid(s)
    IN  Column([i \in Rows(s) |->
                  IF s[i] # NaN THEN s[i]
                  ELSE LET earlier == {j \in valid : j < i}
                       IN  IF earlier = {} THEN NaN ELSE s[MaxOf(earlier)]])

\* data.fillna(method='bfill').fillna(method='ffill')
fillna(df) == [c \in DOMAIN df |-> ffill(bfill(df[c]))]

\* the frame calculate_all_features builds before it fills the gaps
AllFeatures(df) ==
    add_custom_features(
      add_pattern_features(
        add_volume_features(
          add_volatility_features(
            add_trend_features(
              add_momentum_features(
                add_price_features(df)))))))

FEResult(status, same, frame) == [status |-> status, same |-> same, frame |-> frame]

\* calculate_all_features with only the df.empty test of its first guard
calculate_all_features_EmptyOnly(df) ==
    IF df.rows = 0
    THEN FEResult("returned", TRUE, df.cols)
    ELSE IF ~ (required_cols \subseteq DOMAIN df.cols)
    THEN FEResult("ValueError", FALSE, df.cols)
    ELSE FEResult("returned", FALSE, fillna(AllFeatures(df.cols)))

\* FeatureEngineer.calculate_all_features(df): the outcome (returned or the
\* exception raised), whether the result is the caller's own frame object, and
\* the frame returned
calculate_all_features(df) ==
    IF df.rows = 0 \/ df.rows < MinFeatureRows
    THEN FEResult("returned", TRUE, df.cols)
    ELSE IF ~ (required_cols \subseteq DOMAIN df.cols)
    THEN FEResult("ValueError", FALSE, df.cols)
    ELSE IF QcutRaises(rolling_std_value(returns_value(df.cols["close"]), 20))
    THEN FEResult("ValueError", FALSE, df.cols)
    ELSE FEResult("returned", FALSE, fillna(AllFeatures(df.cols)))

\* the close of row i: constant, or a pattern that repeats every 7 rows
ClosePattern == <<0, 1, 3, 2, 5, 1, 4>>

FrameKinds == {"varying", "constant", "no_close"}

\* a valid OHLCV series of n rows (low <= open, close <= high, volume >= 0);
\* kind "no_close" lacks the close column
Frame(kind, n) ==
    LET close == Column([i \in 1..n |->
                           IF kind = "constant" THEN 100
                           ELSE 100 + ClosePattern[(i % 7) + 1]])
        spread == IF kind = "constant" THEN 0 ELSE 2
        base == ("open" :> close)
                @@ ("high" :> Column([i \in 1..n |-> close[i] + spread]))
                @@ ("low" :> Column([i \in 1..n |-> close[i] - spread]))
                @@ ("volume" :> Column([i \in 1..n |-> 1000 + 10 * (i % 3)]))
    IN  [kind |-> kind, rows |-> n,
         cols |-> IF kind = "no_close" THEN base ELSE ("close" :> close) @@ base]

NoFrame == [kind |-> "none", rows |-> 0, cols |-> <<>>]

NoResult == FEResult("idle", FALSE, <<>>)

InitFE ==
    /\ fe_df = NoFrame
    /\ fe_res = NoResult

FEFrame ==
    UNCHANGED <<cal_op, pred, disk, clock, runs, calls, last,
                saver, loader, infer, labels, train, causal, mgr, sched,
                daily>>

\* a caller builds the price frame of a stock
BuildFrame ==
    /\ fe_df.kind = "none"
    /\ FEFrame
    /\ \E kind \in FrameKinds, n \in 0..MaxLen : fe_df' = Frame(kind, n)
    /\ UNCHANGED fe_res

\* the caller runs the feature engine on its frame
CalculateAllFeatures ==
    /\ fe_df.kind # "none"
    /\ fe_res.status = "idle"
    /\ FEFrame
    /\ fe_res' = calculate_all_features(fe_df)
    /\ UNCHANGED fe_df

\* the caller drops the frames
FEReturn ==
    /\ fe_res.status # "idle"
    /\ FEFrame
    /\ fe_df' = NoFrame
    /\ fe_res' = NoResult

(***************************************************************************)
(* save_models and load_models as two processes on model_dir.              *)
(* joblib.dump(value, path) opens path for writing, which truncates the    *)
(* file, writes the pickle and closes it: between the two, the file holds  *)
(* a prefix of the pickle.  save_models dumps to the timestamped file and  *)
(* then to the latest file, with no temporary file and no rename.          *)
(***************************************************************************)
MaxSaves == 2

\* a predictor whose training run number `run` completed
TrainedPredictor(prediction_type, run) ==
    train_models(StockPredictor(prediction_type), MaxRows, "none", run).pred

SaverIdle ==
    [pc |-> "idle", package |-> ModelPackage(StockPredictor("swing")),
     stamp |-> 0, saves |-> 0]

LoaderIdle ==
    [status |-> "idle", package |-> ModelPackage(StockPredictor("swing"))]

InitStore ==
    /\ saver = SaverIdle
    /\ loader = LoaderIdle

StoreFrame ==
    UNCHANGED <<cal_op, fe_df, fe_res, pred, clock, runs, calls, last, infer, labels,
                train, causal, mgr, sched, daily>>

\* the file the saver has open for writing, as a set
OpenForWriting ==
    IF saver.pc = "stamped_open"
    THEN {StampedFile(saver.package.prediction_type, saver.stamp)}
    ELSE IF saver.pc = "latest_open"
    THEN {LatestFile(saver.package.prediction_type)}
    ELSE {}

\* open(path, 'wb') and the first writes of joblib.dump
dump_open(files, path, package) ==
    [f \in (DOMAIN files) \cup {path} |-> IF f = path THEN package ELSE files[f]]

\* save_models, lines 343-352: the timestamp and model_package
SaveBegin ==
    /\ saver.pc = "idle"
    /\ saver.saves < MaxSaves
    /\ StoreFrame
    /\ \E t \in TimeFrames :
        saver' = [pc |-> "package",
                  package |-> ModelPackage(TrainedPredictor(t, saver.saves + 1)),
                  stamp |-> clock,
                  saves |-> saver.saves + 1]
    /\ UNCHANGED <<disk, loader>>

\* joblib.dump(model_package, model_file): the file is opened and truncated
SaveOpenStamped ==
    /\ saver.pc = "package"
    /\ StoreFrame
    /\ disk' = dump_open(disk, StampedFile(saver.package.prediction_type, saver.stamp),
                         saver.package)
    /\ saver' = [saver EXCEPT !.pc = "stamped_open"]
    /\ UNCHANGED loader

\* joblib.dump(model_package, model_file): the pickle is complete, the file closed
SaveCloseStamped ==
    /\ saver.pc = "stamped_open"
    /\ StoreFrame
    /\ saver' = [saver EXCEPT !.pc = "stamped_done"]
    /\ UNCHANGED <<disk, loader>>

\* joblib.dump(model_package, latest_file): the file is opened and truncated
SaveOpenLatest ==
    /\ saver.pc = "stamped_done"
    /\ StoreFrame
    /\ disk' = dump_open(disk, LatestFile(saver.package.prediction_type), saver.package)
    /\ saver' = [saver EXCEPT !.pc = "latest_open"]
    /\ UNCHANGED loader

\* joblib.dump(model_package, latest_file): complete and closed; save_models returns
SaveCloseLatest ==
    /\ saver.pc = "latest_open"
    /\ StoreFrame
    /\ saver' = [saver EXCEPT !.pc = "idle"]
    /\ UNCHANGED <<disk, loader>>

\* load_models() of a fresh predictor in another process: joblib.load(latest file)
\* raises FileNotFoundError when the file is absent and EOFError or
\* UnpicklingError ("pickle data was truncated") when it holds a prefix
LoadWhileSaving ==
    /\ loader.status = "idle"
    /\ StoreFrame
    /\ \E t \in TimeFrames :
        LET model_file == LatestFile(t) IN
        loader' =
            IF model_file \notin DOMAIN disk
            THEN [LoaderIdle EXCEPT !.status = "FileNotFoundError"]
            ELSE IF model_file \in OpenForWriting
            THEN [status |-> "truncated", package |-> disk[model_file]]
            ELSE [status |-> "loaded", package |-> disk[model_file]]
    /\ UNCHANGED <<disk, saver>>

\* the loading process ends
LoaderReturn ==
    /\ loader.status # "idle"
    /\ StoreFrame
    /\ loader' = LoaderIdle
    /\ UNCHANGED <<disk, saver>>

(***************************************************************************)
(* One predict call in detail (predictor.py, lines 279-338).               *)
(* The artifact is given by its feature names and by whether it is fitted; *)
(* the live series by its frame.  What the fitted models answer for a row  *)
(* is an input: two probabilities on a grid of 1/ProbScale, a predicted    *)
(* return in percent and the value of the atr_14 cell in cents.  Prices    *)
(* are whole currency units, results are in cents.                         *)
(***************************************************************************)
ProbScale == 4

MaxAtr == 2

\* StockPredictor.select_features: exclude_cols
exclude_cols ==
    {"target", "target_return", "future_return",
     "open", "high", "low", "close", "volume",
     "datetime", "date", "ticker", "symbol"}

\* StockPredictor.select_features: the columns outside exclude_cols that hold at
\* least one defined cell
select_features(df) ==
    {col \in (DOMAIN df) \ exclude_cols : \E i \in Rows(df[col]) : df[col][i] # NaN}

\* the rows of the series the artifacts were trained on, and of the live series
TrainRowChoices == {MinHistoryRows - 1, MinHistoryRows}

LiveRowChoices == {0, MinFeatureRows - 1, MinFeatureRows, MinHistoryRows - 1, MinHistoryRows}

PredictedReturns == {0 - 10, 0, 10}

AtrCents == {50 * a : a \in 0..MaxAtr}

NoPrediction ==
    [status |-> "none", direction |-> "none", confidence |-> 0, confidence_den |-> 1,
     predicted_return |-> 0, current_price |-> 0, target_price |-> 0,
     stop_loss |-> 0, forecast_days |-> 0]

Raised(error) == [NoPrediction EXCEPT !.status = error]

\* lines 319-320
direction_of(xgb_proba, lgb_proba) ==
    IF xgb_proba + lgb_proba > ProbScale THEN "up" ELSE "down"

\* mutant of stop_loss_of: the ATR distance is taken on the other side
stop_loss_of_Favourable(columns, direction, current_price, atr) ==
    IF "atr_14" \in columns
    THEN IF direction = "up" THEN 100 * current_price + 2 * atr
         ELSE 100 * current_price - 2 * atr
    ELSE IF direction = "up" THEN current_price * 97 ELSE current_price * 103

\* lines 322-328, in cents
stop_loss_of(columns, direction, current_price, atr) ==
    IF "atr_14" \in columns
    THEN IF direction = "up" THEN 100 * current_price - 2 * atr
         ELSE 100 * current_price + 2 * atr
    ELSE IF direction = "up" THEN current_price * 97 ELSE current_price * 103

\* mutant of predict_row: a confidence of one half counts as up
predict_row_HalfIsUp(feature_names, fitted, forecast_days, columns, rows, current_price, xgb_proba, lgb_proba, predicted_return, atr) ==
    IF ~ (feature_names \subseteq columns) THEN Raised("KeyError")
    ELSE IF ~ fitted THEN Raised("NotFittedError")
    ELSE IF rows = 0 THEN Raised("ValueError")
    ELSE
      LET direction == IF xgb_proba + lgb_proba >= ProbScale THEN "up" ELSE "down" IN
      [status |-> "prediction",
       direction |-> direction,
       confidence |-> xgb_proba + lgb_proba,
       confidence_den |-> 2 * ProbScale,
       predicted_return |-> predicted_return,
       current_price |-> current_price,
       target_price |-> current_price * (100 + predicted_return),
       stop_loss |-> stop_loss_of(columns, direction, current_price, atr),
       forecast_days |-> forecast_days]

\* StockPredictor.predict from line 291 on: df_features has the given columns and
\* rows.  confidence is the fraction confidence / confidence_den.
predict_row(feature_names, fitted, forecast_days, columns, rows, current_price, xgb_proba, lgb_proba, predicted_return, atr) ==
    \* X = latest[self.feature_names]
    IF ~ (feature_names \subseteq columns) THEN Raised("KeyError")
    \* self.scaler.transform(X): unfitted, or no row to transform
    ELSE IF ~ fitted THEN Raised("NotFittedError")
    ELSE IF rows = 0 THEN Raised("ValueError")
    ELSE
      LET direction == direction_of(xgb_proba, lgb_proba) IN
      [status |-> "prediction",
       direction |-> direction,
       confidence |-> xgb_proba + lgb_proba,
       confidence_den |-> 2 * ProbScale,
       predicted_return |-> predicted_return,
       current_price |-> current_price,
       target_price |-> current_price * (100 + predicted_return),
       stop_loss |-> stop_loss_of(columns, direction, current_price, atr),
       forecast_days |-> forecast_days]

\* predict, lines 291-298: the one-row frame handed to self.scaler.transform
scaler_input(feature_names, df_features, rows) ==
    LET latest == [c \in DOMAIN df_features |->
                      IF rows = 0 THEN <<>> ELSE SubSeq(df_features[c], rows, rows)]
        X == [c \in feature_names |-> latest[c]]
    IN  fillna_mean([c \in DOMAIN X |-> replace_inf(X[c])])

InferIdle ==
    [pc |-> "idle", prediction_type |-> "none", forecast_days |-> 0,
     feature_names |-> {}, fitted |-> FALSE,
     rows |-> 0, columns |-> {}, X |-> <<>>, current_price |-> 0,
     xgb_proba |-> 0, lgb_proba |-> 0, atr |-> 0,
     result |-> NoPrediction]

InitInfer == infer = InferIdle

InferFrame ==
    UNCHANGED <<cal_op, fe_df, fe_res, pred, disk, clock, runs, calls, last,
                saver, loader, labels, train, causal, mgr, sched, daily>>

\* predictor = StockPredictor(t), fresh or with the artifact of a training run
\* on a series of train_rows rows (train_models, line 133: the feature names
\* are those select_features finds in the prepared frame)
InferArtifact ==
    /\ infer.pc = "idle"
    /\ InferFrame
    /\ \E t \in TimeFrames :
        \/ infer' = [InferIdle EXCEPT !.pc = "artifact",
                                      !.prediction_type = t,
                                      !.forecast_days = forecast_days_of(t)]
        \/ \E train_rows \in TrainRowChoices :
            infer' = [InferIdle EXCEPT
                        !.pc = "artifact",
                        !.prediction_type = t,
                        !.forecast_days = forecast_days_of(t),
                        !.fitted = TRUE,
                        !.feature_names =
                            select_features(
                              calculate_all_features(Frame("varying", train_rows)).frame)]

\* predict, lines 286-288 and 314: the features of the live series
InferFeatures ==
    /\ infer.pc = "artifact"
    /\ InferFrame
    /\ \E kind \in {"varying", "constant"}, rows \in LiveRowChoices :
        LET df == Frame(kind, rows)
            df_features == calculate_all_features(df)
        IN  infer' =
              IF df_features.status = "ValueError"
              THEN [infer EXCEPT !.pc = "done", !.rows = rows,
                                 !.result = Raised("ValueError")]
              ELSE [infer EXCEPT !.pc = "features", !.rows = rows,
                                 !.columns = DOMAIN df_features.frame,
                                 !.X = IF infer.feature_names
                                            \subseteq DOMAIN df_features.frame
                                       THEN scaler_input(infer.feature_names,
                                                         df_features.frame, rows)
                                       ELSE <<>>,
                                 !.current_price =
                                     IF rows = 0 THEN 0 ELSE df.cols["close"][rows]]

\* predict, lines 291-338, with what the models and the atr_14 cell hold
InferPredict ==
    /\ infer.pc = "features"
    /\ InferFrame
    /\ \E xgb_proba \in 0..ProbScale, lgb_proba \in 0..ProbScale,
          predicted_return \in PredictedReturns, atr \in AtrCents :
        infer' = [infer EXCEPT
                    !.pc = "done",
                    !.xgb_proba = xgb_proba,
                    !.lgb_proba = lgb_proba,
                    !.atr = atr,
                    !.result = predict_row(infer.feature_names, infer.fitted,
                                           infer.forecast_days, infer.columns,
                                           infer.rows, infer.current_price,
                                           xgb_proba, lgb_proba, predicted_return, atr)]

\* the caller takes the result or handles the exception
InferReturn ==
    /\ infer.pc = "done"
    /\ InferFrame
    /\ infer' = InferIdle

(***************************************************************************)
(* Label construction (predictor.py, prepare_training_data).               *)
(* A return is the fraction num / den of two prices, exact; 0 / 0 is the   *)
(* undefined return (NaN).  The frame returned carries the columns of the  *)
(* feature engine for the rows kept; only its index and its three label    *)
(* columns are recorded.                                                   *)
(***************************************************************************)
NaNReturn == [num |-> 0, den |-> 0]

\* df_features['close'].shift(-forecast_days) / df_features['close'] - 1
future_return_of(close, forecast_days) ==
    [t \in Rows(close) |->
        IF t + forecast_days <= Len(close) /\ close[t] # NaN
           /\ close[t + forecast_days] # NaN
        THEN [num |-> close[t + forecast_days] - close[t], den |-> close[t]]
        ELSE NaNReturn]

\* (df_features['future_return'] > threshold).astype(int), threshold in percent:
\* a comparison with NaN is False
target_of(future_return, threshold) ==
    [t \in DOMAIN future_return |->
        IF future_return[t] # NaNReturn
           /\ 100 * future_return[t].num > threshold * future_return[t].den
        THEN 1 ELSE 0]

LabelResult(status, index, future_return, target, target_return) ==
    [status |-> status, index |-> index,
     future_return |-> [t \in index |-> future_return[t]],
     target |-> [t \in index |-> target[t]],
     target_return |-> [t \in index |-> target_return[t]]]

NoLabels == LabelResult("idle", {}, <<>>, <<>>, <<>>)

\* mutant of prepare_training_data: dropna looks at the target column alone
prepare_training_data_DropOnTarget(self, df) ==
    LET df_features == calculate_all_features(df) IN
    IF df_features.status = "ValueError"
    THEN [NoLabels EXCEPT !.status = "ValueError"]
    ELSE IF "close" \notin DOMAIN df_features.frame
    THEN [NoLabels EXCEPT !.status = "KeyError"]
    ELSE
      LET close == df_features.frame["close"]
          future_return == future_return_of(close, self.forecast_days)
          target == target_of(future_return, get_threshold(self))
      IN  LabelResult("returned", Rows(close), future_return, target, future_return)

\* StockPredictor.prepare_training_data(df)
prepare_training_data(self, df) ==
    LET df_features == calculate_all_features(df) IN
    IF df_features.status = "ValueError"
    THEN [NoLabels EXCEPT !.status = "ValueError"]
    \* df_features['close'] on a short frame that came back as it is
    ELSE IF "close" \notin DOMAIN df_features.frame
    THEN [NoLabels EXCEPT !.status = "KeyError"]
    ELSE
      LET close == df_features.frame["close"]
          future_return == future_return_of(close, self.forecast_days)
          target == target_of(future_return, get_threshold(self))
          target_return == future_return
          \* dropna(subset=['target', 'target_return']); target is never NaN
          kept == {t \in Rows(close) : target_return[t] # NaNReturn}
      IN  LabelResult("returned", kept, future_return, target, target_return)

\* the label columns prepare_training_data leaves in the caller's frame: the
\* feature engine returns a short frame itself, not a copy, and the three
\* columns are assigned to it
LabelColumnsLeft(self, df) ==
    IF df.rows < MinFeatureRows /\ "close" \in DOMAIN df.cols
    THEN LET future_return == future_return_of(df.cols["close"], self.forecast_days)
         IN  ("future_return" :> future_return)
             @@ ("target" :> target_of(future_return, get_threshold(self)))
             @@ ("target_return" :> future_return)
             @@ df.cols
    ELSE df.cols

LabelsIdle ==
    [prediction_type |-> "none", forecast_days |-> 0, threshold |-> 0,
     result |-> NoLabels]

InitLabels == labels = LabelsIdle

LabelsFrame ==
    UNCHANGED <<cal_op, fe_res, pred, disk, clock, runs, calls, last,
                saver, loader, infer, train, causal, mgr, sched, daily>>

\* StockPredictor(t).prepare_training_data(df) on the caller's frame
PrepareTrainingData ==
    /\ fe_df.kind # "none"
    /\ labels.result.status = "idle"
    /\ LabelsFrame
    /\ \E t \in PredictionTypes :
        LET self == StockPredictor(t) IN
        /\ labels' = [prediction_type |-> t,
                      forecast_days |-> self.forecast_days,
                      threshold |-> get_threshold(self),
                      result |-> prepare_training_data(self, fe_df)]
        /\ fe_df' = [fe_df EXCEPT !.cols = LabelColumnsLeft(self, fe_df)]

\* the caller drops the frames
LabelsReturn ==
    /\ labels.result.status # "idle"
    /\ LabelsFrame
    /\ fe_df' = NoFrame
    /\ labels' = LabelsIdle

(***************************************************************************)
(* The data path of train_models (predictor.py, lines 135-152).            *)
(* df_prepared is given by the matrix X of its selected feature columns,   *)
(* its target column and its index (the row labels, in input order).  A    *)
(* cell is a whole number; the only undefined cells that reach this point  *)
(* are the infinite ones (the feature engine has filled the others), which *)
(* line 140 turns into NaN.  Scaled cells are in hundredths.               *)
(***************************************************************************)
MaxTrainRows == 105

TailLevels == {0, 70}

\* df_prepared for n labeled rows: cell (hole, volume_change) is infinite when
\* hole > 0, and the rows after the first floor(0.8 n) carry the level tail
df_prepared_of(n, hole, hole_value, tail) ==
    LET lift(i) == IF i > (4 * n) \div 5 THEN tail ELSE 0
    IN  [index |-> Column([i \in 1..n |-> i]),
         X |-> ("volume_change" :>
                   Column([i \in 1..n |->
                             IF i = hole THEN hole_value
                             ELSE 3 * ClosePattern[(i % 7) + 1] + lift(i)]))
               @@ ("rsi_14" :> Column([i \in 1..n |-> 10 + (i % 5) + lift(i)])),
         target |-> Column([i \in 1..n |->
                              IF ClosePattern[(i % 7) + 1] >= 3 THEN 1 ELSE 0])]

\* s[:k] and s[k:]
head(s, k) == SubSeq(s, 1, k)

tail_from(s, k) == SubSeq(s, k + 1, Len(s))

isqrt(v) == CHOOSE r \in 0..v : r * r <= v /\ v < (r + 1) * (r + 1)

\* StandardScaler.fit: mean_ and scale_ of every column (a zero scale is 1)
scaler_fit(X) ==
    [c \in DOMAIN X |->
        LET mean == column_mean(X[c])
            dev == Column([i \in Rows(X[c]) |-> (X[c][i] - mean) * (X[c][i] - mean)])
            std == isqrt(SumRange(dev, 1, Len(dev)) \div Len(dev))
        IN  [mean_ |-> mean, scale_ |-> IF std = 0 THEN 1 ELSE std]]

\* StandardScaler.transform, in hundredths
scaler_transform(scaler, X) ==
    [c \in DOMAIN X |->
        Column([i \in Rows(X[c]) |->
                  (100 * (X[c][i] - scaler[c].mean_)) \div scaler[c].scale_])]

NoMatrix == [c \in {} |-> <<>>]

NoPartitions ==
    [X |-> NoMatrix, split_idx |-> 0,
     train_index |-> <<>>, test_index |-> <<>>,
     X_train |-> NoMatrix, X_test |-> NoMatrix,
     y_train |-> <<>>, y_test |-> <<>>,
     scaler |-> NoMatrix,
     X_train_scaled |-> NoMatrix, X_test_scaled |-> NoMatrix]

\* mutant of train_models_partitions: the scaler is fitted on all the rows
train_models_partitions_FitAll(df_prepared) ==
    LET X == fillna_mean([c \in DOMAIN df_prepared.X |-> replace_inf(df_prepared.X[c])])
        split_idx == (4 * Len(df_prepared.index)) \div 5
        X_train == [c \in DOMAIN X |-> head(X[c], split_idx)]
        X_test == [c \in DOMAIN X |-> tail_from(X[c], split_idx)]
        scaler == scaler_fit(X)
    IN  [X |-> X, split_idx |-> split_idx,
         train_index |-> head(df_prepared.index, split_idx),
         test_index |-> tail_from(df_prepared.index, split_idx),
         X_train |-> X_train, X_test |-> X_test,
         y_train |-> head(df_prepared.target, split_idx),
         y_test |-> tail_from(df_prepared.target, split_idx),
         scaler |-> scaler,
         X_train_scaled |-> scaler_transform(scaler, X_train),
         X_test_scaled |-> scaler_transform(scaler, X_test)]

\* StockPredictor.train_models, lines 135-152: what goes to the scaler and to
\* the models
train_models_partitions(df_prepared) ==
    LET \* lines 140-141
        X == fillna_mean([c \in DOMAIN df_prepared.X |-> replace_inf(df_prepared.X[c])])
        \* int(len(X) * 0.8)
        split_idx == (4 * Len(df_prepared.index)) \div 5
        X_train == [c \in DOMAIN X |-> head(X[c], split_idx)]
        X_test == [c \in DOMAIN X |-> tail_from(X[c], split_idx)]
        \* self.scaler.fit_transform(X_train)
        scaler == scaler_fit(X_train)
    IN  [X |-> X, split_idx |-> split_idx,
         train_index |-> head(df_prepared.index, split_idx),
         test_index |-> tail_from(df_prepared.index, split_idx),
         X_train |-> X_train, X_test |-> X_test,
         y_train |-> head(df_prepared.target, split_idx),
         y_test |-> tail_from(df_prepared.target, split_idx),
         scaler |-> scaler,
         X_train_scaled |-> scaler_transform(scaler, X_train),
         X_test_scaled |-> scaler_transform(scaler, X_test)]

\* Two training runs side by side: their series agree on every row of the
\* leading 80% and differ by the level of the trailing rows only
TrainIdle ==
    [pc |-> "idle", n |-> 0, hole |-> 0, hole_value |-> 0,
     tail_a |-> 0, tail_b |-> 0, a |-> NoPartitions, b |-> NoPartitions]

InitTrain == train = TrainIdle

TrainFrame ==
    UNCHANGED <<cal_op, fe_df, fe_res, pred, disk, clock, runs, calls, last,
                saver, loader, infer, labels, causal, mgr, sched, daily>>

\* the two series are prepared (prepare_training_data returned at least
\* MinTrainingRows rows)
TrainPrepare ==
    /\ train.pc = "idle"
    /\ TrainFrame
    /\ \E n \in MinTrainingRows..MaxTrainRows, tail_a \in TailLevels,
          tail_b \in TailLevels, hole_value \in {Inf, NegInf} :
          \E hole \in {0, 1, (4 * n) \div 5, n} :
            train' = [TrainIdle EXCEPT !.pc = "prepared", !.n = n, !.hole = hole,
                                       !.hole_value = hole_value,
                                       !.tail_a = tail_a, !.tail_b = tail_b]

\* train_models runs on each of the two series
TrainPartitions ==
    /\ train.pc = "prepared"
    /\ TrainFrame
    /\ train' = [train EXCEPT
                   !.pc = "done",
                   !.a = train_models_partitions(
                           df_prepared_of(train.n, train.hole, train.hole_value,
                                          train.tail_a)),
                   !.b = train_models_partitions(
                           df_prepared_of(train.n, train.hole, train.hole_value,
                                          train.tail_b))]

\* the caller takes the metrics
TrainReturn ==
    /\ train.pc = "done"
    /\ TrainFrame
    /\ train' = TrainIdle

(***************************************************************************)
(* The feature groups on two series with a common past                     *)
(* (feature_engineer.py, lines 55-62, before the fill of line 65).         *)
(* The derived row keeps, for every derived column, whether the cell is    *)
(* defined, and for volatility_regime the label pd.qcut gives it.          *)
(***************************************************************************)
MaxSwing == 2

CausalRowChoices == {MinFeatureRows, MinFeatureRows + 10}

\* a valid OHLCV series of n rows whose closes move by the pattern up to row t
\* and by swing times the pattern after it
FrameWithTail(n, t, swing) ==
    LET close == Column([i \in 1..n |->
                           100 + (IF i > t THEN swing ELSE 1) * ClosePattern[(i % 7) + 1]])
    IN  [kind |-> "varying", rows |-> n,
         cols |-> ("close" :> close)
                  @@ ("open" :> close)
                  @@ ("high" :> Column([i \in 1..n |-> close[i] + 2]))
                  @@ ("low" :> Column([i \in 1..n |-> close[i] - 2]))
                  @@ ("volume" :> Column([i \in 1..n |-> 1000 + 10 * (i % 3)]))]

\* the q-th of the bin edges of pd.qcut(s, q=3), multiplied by 3
QuantileEdge(s, q) ==
    LET m == Cardinality({i \in Rows(s) : s[i] # NaN})
        pos == (m - 1) * q
        f == pos \div 3
        r == pos % 3
    IN  IF r = 0 THEN 3 * OrderStatistic(s, f)
        ELSE (3 - r) * OrderStatistic(s, f) + r * OrderStatistic(s, f + 1)

\* pd.qcut(s, q=3, labels=[0, 1, 2]) where it does not raise: the bins are
\* [e0, e1], (e1, e2], (e2, e3]; NaN cells stay NaN
qcut_labels(s) ==
    Column([i \in Rows(s) |->
              IF s[i] = NaN THEN NaN
              ELSE IF 3 * s[i] <= QuantileEdge(s, 1) THEN 0
              ELSE IF 3 * s[i] <= QuantileEdge(s, 2) THEN 1
              ELSE 2])

\* row t of the frame the feature groups build from df (lines 56-62)
feature_groups_row(df, t) ==
    LET volatility_20 == rolling_std_value(returns_value(df.cols["close"]), 20)
    IN  IF QcutRaises(volatility_20)
        THEN [status |-> "ValueError", row |-> <<>>]
        ELSE LET data == AllFeatures(df.cols)
                 regime == qcut_labels(volatility_20)
             IN  [status |-> "returned",
                  row |-> [c \in (DOMAIN data) \ required_cols |->
                             IF c = "volatility_regime" THEN regime[t]
                             ELSE data[c][t]]]

NoRow == [status |-> "idle", row |-> <<>>]

CausalIdle ==
    [pc |-> "idle", n |-> 0, t |-> 0, swing_a |-> 0, swing_b |-> 0,
     a |-> NoRow, b |-> NoRow]

InitCausal == causal = CausalIdle

CausalFrame ==
    UNCHANGED <<cal_op, fe_df, fe_res, pred, disk, clock, runs, calls, last,
                saver, loader, infer, labels, train, mgr, sched, daily>>

\* two callers hold series of n rows that agree on the rows 1..t
CausalBuild ==
    /\ causal.pc = "idle"
    /\ CausalFrame
    /\ \E n \in CausalRowChoices, swing_a \in 1..MaxSwing, swing_b \in 1..MaxSwing :
         \E t \in 1..n :
            causal' = [CausalIdle EXCEPT !.pc = "built", !.n = n, !.t = t,
                                         !.swing_a = swing_a, !.swing_b = swing_b]

\* each runs the feature groups on its series
CausalFeatures ==
    /\ causal.pc = "built"
    /\ CausalFrame
    /\ causal' = [causal EXCEPT
                    !.pc = "done",
                    !.a = feature_groups_row(
                            FrameWithTail(causal.n, causal.t, causal.swing_a), causal.t),
                    !.b = feature_groups_row(
                            FrameWithTail(causal.n, causal.t, causal.swing_b), causal.t)]

\* the callers drop the frames
CausalReturn ==
    /\ causal.pc = "done"
    /\ CausalFrame
    /\ causal' = CausalIdle

(***************************************************************************)
(* BackgroundTaskManager on one asyncio event loop                         *)
(* (backend/services/background_tasks.py, lines 18-54).                    *)
(* A coroutine runs without interruption up to its next await.  start has  *)
(* no await; stop suspends at `await task` when the task is not done.  A   *)
(* scheduler task is pending (created, not run yet), alive (inside its     *)
(* loop, asleep), cancelling (cancel() called, CancelledError not yet      *)
(* delivered) or done.                                                     *)
(***************************************************************************)
MaxStartCalls == 3

MaxStopCalls == 2

TaskIds == 1..MaxStartCalls

StopIds == 1..MaxStopCalls

StopIdle == [pc |-> "idle", i |-> 0, awaiting |-> 0]

\* BackgroundTaskManager.__init__; created, starts and stops count the tasks
\* created and the calls made so far
BackgroundTaskManager ==
    [running |-> FALSE,
     tasks   |-> <<>>,
     state   |-> [t \in TaskIds |-> "none"],
     created |-> 0,
     starts  |-> 0,
     stops   |-> 0,
     stop    |-> [s \in StopIds |-> StopIdle]]

Live(m, t) == m.state[t] \in {"pending", "alive"}

\* mutant of start: the running test is missing
start_Unguarded(m) ==
    [m EXCEPT !.running = TRUE,
              !.created = m.created + 1,
              !.state[m.created + 1] = "pending",
              !.tasks = Append(m.tasks, m.created + 1),
              !.starts = m.starts + 1]

\* BackgroundTaskManager.start
start(m) ==
    IF m.running
    THEN [m EXCEPT !.starts = m.starts + 1]
    ELSE [m EXCEPT !.running = TRUE,
                   !.created = m.created + 1,
                   !.state[m.created + 1] = "pending",
                   !.tasks = Append(m.tasks, m.created + 1),
                   !.starts = m.starts + 1]

\* task.cancel(): a task that is not done is asked to cancel
cancel(state, t) ==
    IF state[t] \in {"pending", "alive"} THEN [state EXCEPT ![t] = "cancelling"]
    ELSE state

\* stop, lines 46-53, for coroutine s from position i of the list iterator on:
\* cancel the task and await it (no suspension when it is done already), and
\* after the last position clear the list
RECURSIVE stop_loop(_, _, _)
stop_loop(m, s, i) ==
    IF i > Len(m.tasks)
    THEN [m EXCEPT !.tasks = <<>>,
                   !.stop[s] = [pc |-> "returned", i |-> i, awaiting |-> 0]]
    ELSE LET task == m.tasks[i]
             cancelled == [m EXCEPT !.state = cancel(m.state, task)]
         IN  IF cancelled.state[task] = "done"
             THEN stop_loop(cancelled, s, i + 1)
             ELSE [cancelled EXCEPT
                     !.stop[s] = [pc |-> "awaiting", i |-> i + 1, awaiting |-> task]]

\* BackgroundTaskManager.stop up to its first suspension
stop(m, s) ==
    stop_loop([m EXCEPT !.running = FALSE, !.stops = m.stops + 1], s, 1)

InitTasks == mgr = BackgroundTaskManager

TasksFrame ==
    UNCHANGED <<cal_op, fe_df, fe_res, pred, disk, clock, runs, calls, last,
                saver, loader, infer, labels, train, causal, sched, daily>>

\* await background_manager.start()
Start ==
    /\ mgr.starts < MaxStartCalls
    /\ TasksFrame
    /\ mgr' = start(mgr)

\* await background_manager.stop(), until it suspends or returns
StopBegin ==
    /\ mgr.stops < MaxStopCalls
    /\ TasksFrame
    /\ mgr' = stop(mgr, mgr.stops + 1)

\* the task a stop coroutine awaits is done: the coroutine goes on
StopResume ==
    /\ TasksFrame
    /\ \E s \in StopIds :
        /\ mgr.stop[s].pc = "awaiting"
        /\ mgr.state[mgr.stop[s].awaiting] = "done"
        /\ mgr' = stop_loop(mgr, s, mgr.stop[s].i)

\* the event loop runs a scheduler task (_daily_update_scheduler, lines 61 and
\* 86-88): a new task enters its loop when running is set and returns when it
\* is not, a task asked to cancel ends, a task that wakes up with running
\* cleared leaves its loop
TaskStep ==
    /\ TasksFrame
    /\ \E t \in TaskIds :
        \/ /\ mgr.state[t] = "pending"
           /\ mgr' = [mgr EXCEPT !.state[t] = IF mgr.running THEN "alive" ELSE "done"]
        \/ /\ mgr.state[t] = "cancelling"
           /\ mgr' = [mgr EXCEPT !.state[t] = "done"]
        \/ /\ mgr.state[t] = "alive"
           /\ ~ mgr.running
           /\ mgr' = [mgr EXCEPT !.state[t] = "done"]

(***************************************************************************)
(* The daily-update scheduler (background_tasks.py, lines 56-92).          *)
(* Time is a count of whole hours from midnight of day 1 of a month of     *)
(* DaysInMonth days; the month after it has as many.                       *)
(***************************************************************************)
DaysInMonth == 30

\* the scheduler is followed from its start on one of the last two days of
\* the month to the end of the second day of the next month
MaxHour == (DaysInMonth + 2) * 24 - 1

\* target_time = time(18, 0)
TargetHour == 18

NoTime == 0 - 1

\* now.day and now.time()
day_of(now) == ((now \div 24) % DaysInMonth) + 1

hour_of(now) == now % 24

\* lines 63-73: next_run, or the ValueError of datetime.replace(day=...) for a
\* day the month does not have
next_run_of(now) ==
    LET today == (now \div 24) * 24 + TargetHour
    IN  IF hour_of(now) < TargetHour
        THEN [status |-> "ok", next_run |-> today]
        ELSE IF day_of(today) + 1 > DaysInMonth
        THEN [status |-> "ValueError", next_run |-> NoTime]
        ELSE [status |-> "ok", next_run |-> today + 24]

\* one pass of the loop body up to its await: asleep until next_run, or after
\* an exception asleep for an hour (line 92)
scheduler_pass(s) ==
    LET r == next_run_of(s.now)
    IN  IF r.status = "ok"
        THEN [s EXCEPT !.pc = "sleeping", !.computed_at = s.now,
                       !.next_run = r.next_run, !.wake = r.next_run]
        ELSE [s EXCEPT !.pc = "retry", !.computed_at = s.now,
                       !.next_run = NoTime, !.wake = s.now + 1]

SchedIdle ==
    [pc |-> "idle", running |-> FALSE, now |-> 0, started |-> NoTime,
     computed_at |-> NoTime, next_run |-> NoTime, wake |-> NoTime, updates |-> {}]

InitSched == sched = SchedIdle

SchedFrame ==
    UNCHANGED <<cal_op, fe_df, fe_res, pred, disk, clock, runs, calls, last,
                saver, loader, infer, labels, train, causal, mgr, daily>>

\* start() at some hour: the task is created and runs its first pass
SchedStart ==
    /\ sched.pc = "idle"
    /\ SchedFrame
    /\ \E now \in ((DaysInMonth - 2) * 24)..(DaysInMonth * 24 - 1) :
        sched' = scheduler_pass([SchedIdle EXCEPT !.running = TRUE, !.now = now,
                                                  !.started = now])

\* an hour passes while the task is asleep
SchedTick ==
    /\ sched.pc \in {"sleeping", "retry"}
    /\ sched.now < sched.wake
    /\ sched.now < MaxHour
    /\ SchedFrame
    /\ sched' = [sched EXCEPT !.now = sched.now + 1]

\* asyncio.sleep returns: after the sleep to next_run the update runs (lines
\* 83-84), and the loop makes its next pass
SchedWake ==
    /\ sched.pc \in {"sleeping", "retry"}
    /\ sched.now = sched.wake
    /\ SchedFrame
    /\ sched' = scheduler_pass(
                  IF sched.pc = "sleeping" /\ sched.running
                  THEN [sched EXCEPT !.updates = sched.updates \cup {sched.now}]
                  ELSE sched)

\* stop(): running is cleared and the task is cancelled (lines 86-88)
SchedCancel ==
    /\ sched.pc \in {"sleeping", "retry"}
    /\ SchedFrame
    /\ sched' = [sched EXCEPT !.pc = "done", !.running = FALSE]

(***************************************************************************)
(* The daily update (scripts/daily_update.py, run_daily_update, with       *)
(* scripts/generate_predictions.py, generate_predictions_for_all_stocks).  *)
(* The predictions table is given by the number of rows it holds from      *)
(* before the run (old) and from this run (new); a session holds what it   *)
(* has not committed yet.  A database call can raise.                      *)
(***************************************************************************)
MaxOld == 3

MaxStocks == 3

\* prediction_types of generate_predictions_for_all_stocks
TimeframesPerStock == 3

Table(old, new) == [old |-> old, new |-> new]

DailyIdle ==
    [pc |-> "idle", table |-> Table(0, 0), at_start |-> Table(0, 0),
     successful |-> 0, pending_delete |-> FALSE, deleted |-> FALSE,
     raised_in |-> "none"]

InitDaily == daily = DailyIdle

DailyFrame ==
    UNCHANGED <<cal_op, fe_df, fe_res, pred, disk, clock, runs, calls, last,
                saver, loader, infer, labels, train, causal, mgr, sched>>

\* the except block of run_daily_update, lines 161-165: db.rollback() discards
\* what the session has not committed, and the exception goes to the caller
rollback(d, step) ==
    [d EXCEPT !.pc = "raised", !.pending_delete = FALSE, !.raised_in = step]

\* run_daily_update is called with some rows in the predictions table
DailyBegin ==
    /\ daily.pc = "idle"
    /\ DailyFrame
    /\ \E old \in 0..MaxOld :
        daily' = [DailyIdle EXCEPT !.pc = "prices", !.table = Table(old, 0),
                                   !.at_start = Table(old, 0)]

\* step 1, lines 46-57: no price updated ends the run
DailyUpdatePrices ==
    /\ daily.pc = "prices"
    /\ DailyFrame
    /\ \E successful \in 0..MaxStocks :
        daily' = [daily EXCEPT !.successful = successful,
                               !.pc = IF successful = 0 THEN "returned" ELSE "delete"]

\* step 2, lines 63-64: the rows are counted and deleted inside the session
DailyDelete ==
    /\ daily.pc = "delete"
    /\ DailyFrame
    /\ \/ daily' = [daily EXCEPT !.pc = "commit", !.pending_delete = TRUE]
       \/ daily' = rollback(daily, "delete")

\* step 2, line 65: db.commit() makes the deletion permanent
DailyCommit ==
    /\ daily.pc = "commit"
    /\ DailyFrame
    /\ \/ daily' = [daily EXCEPT !.pc = "generate", !.pending_delete = FALSE,
                                 !.deleted = TRUE, !.table = Table(0, 0)]
       \/ daily' = rollback(daily, "commit")

\* step 3, line 78: generate_predictions_for_all_stocks adds the predictions
\* that succeed (a stock with too little history is skipped, a prediction that
\* raises is skipped) and commits them in its own session, or raises (its own
\* rollback drops what it added) into the handler of run_daily_update
DailyGenerate ==
    /\ daily.pc = "generate"
    /\ DailyFrame
    /\ \/ \E made \in 0..(TimeframesPerStock * MaxStocks) :
            daily' = [daily EXCEPT !.pc = "alerts",
                                   !.table = Table(daily.table.old, made)]
       \/ daily' = rollback(daily, "generate")

\* step 4 and the summary, lines 82-159: the table is only read
DailyAlerts ==
    /\ daily.pc = "alerts"
    /\ DailyFrame
    /\ \/ daily' = [daily EXCEPT !.pc = "returned"]
       \/ daily' = rollback(daily, "summary")

\* the caller has the result or the exception
DailyReturn ==
    /\ daily.pc \in {"returned", "raised"}
    /\ DailyFrame
    /\ daily' = DailyIdle

InitIdle ==
    /\ InitCal
    /\ InitPred
    /\ InitFE
    /\ InitStore
    /\ InitInfer
    /\ InitLabels
    /\ InitTrain
    /\ InitCausal
    /\ InitTasks
    /\ InitSched
    /\ InitDaily

NextPred ==
    \/ Construct
    \/ TrainModels
    \/ SaveModels
    \/ LoadModels
    \/ Predict
    \/ Tick

\* the training scripts, run one after the other on the shared model directory
NextFlows ==
    \/ TrainAllModels
    \/ TrainAndPredict
    \/ Tick

SpecPred == InitIdle /\ [][NextPred]_vars

SpecFlows == InitIdle /\ [][NextFlows]_vars

SpecCal == InitIdle /\ [][NextCal]_vars

NextFE ==
    \/ BuildFrame
    \/ CalculateAllFeatures
    \/ FEReturn

SpecFE == InitIdle /\ [][NextFE]_vars

NextStore ==
    \/ SaveBegin
    \/ SaveOpenStamped
    \/ SaveCloseStamped
    \/ SaveOpenLatest
    \/ SaveCloseLatest
    \/ LoadWhileSaving
    \/ LoaderReturn
    \/ Tick

SpecStore == InitIdle /\ [][NextStore]_vars

NextInfer ==
    \/ InferArtifact
    \/ InferFeatures
    \/ InferPredict
    \/ InferReturn

SpecInfer == InitIdle /\ [][NextInfer]_vars

\* BuildFrame leaves fe_res alone, so the frame built here goes to
\* prepare_training_data
NextLabels ==
    \/ BuildFrame
    \/ PrepareTrainingData
    \/ LabelsReturn

SpecLabels == InitIdle /\ [][NextLabels]_vars

NextTrain ==
    \/ TrainPrepare
    \/ TrainPartitions
    \/ TrainReturn

SpecTrain == InitIdle /\ [][NextTrain]_vars

NextCausal ==
    \/ CausalBuild
    \/ CausalFeatures
    \/ CausalReturn

SpecCausal == InitIdle /\ [][NextCausal]_vars

NextTasks ==
    \/ Start
    \/ StopBegin
    \/ StopResume
    \/ TaskStep

SpecTasks == InitIdle /\ [][NextTasks]_vars

NextSched ==
    \/ SchedStart
    \/ SchedTick
    \/ SchedWake
    \/ SchedCancel

SpecSched == InitIdle /\ [][NextSched]_vars

NextDaily ==
    \/ DailyBegin
    \/ DailyUpdatePrices
    \/ DailyDelete
    \/ DailyCommit
    \/ DailyGenerate
    \/ DailyAlerts
    \/ DailyReturn

SpecDaily == InitIdle /\ [][NextDaily]_vars

(***************************************************************************)
(* Properties of the trading calendar (SpecCal).                           *)
(***************************************************************************)

\* A trading day in the words of the specification: a weekday (Monday to Friday)
\* that is not a listed holiday
TradingDate(day) == (day + BaseWeekday) % 7 \notin {5, 6} /\ day \notin Holidays

\* C3: for every start date d and n >= 1, add_trading_days(d, n) is neither a
\* Saturday/Sunday nor a listed holiday and exactly n trading days t satisfy
\* d < t <= result; a Friday plus 1 is the following Monday unless that Monday is
\* a holiday, and the day before a holiday plus 1 lands after the holiday.
C3_AddTradingDaysExact ==
    (cal_op.op = "add_trading_days" /\ cal_op.n >= 1) =>
        LET d == cal_op.start.day
            r == cal_op.date.day
        IN  /\ TradingDate(r)
            /\ Cardinality({t \in (d + 1)..r : TradingDate(t)}) = cal_op.n
            /\ (weekday(cal_op.start) = 4 /\ cal_op.n = 1 /\ (d + 3) \notin Holidays)
                   => r = d + 3
            /\ (cal_op.n = 1 /\ (d + 1) \in Holidays)
                   => (r > d + 1 /\ r \notin Holidays)

\* C3 witness: Wednesday 2025-12-24 plus one trading day is Friday 2025-12-26
C3_Witness ==
    /\ cal_op.op = "add_trading_days"
    /\ cal_op.n = 1
    /\ (cal_op.start.day + 1) \in Holidays
    /\ cal_op.date.day = cal_op.start.day + 2

\* C4: for every calendar date, is_trading_day is false on a Saturday, a Sunday
\* and a holiday of the calendar add_trading_days uses, and true on any other date.
C4_IsTradingDay ==
    (cal_op.op = "is_trading_day" /\ cal_op.start.tod = 0) =>
        cal_op.flag = is_busday(cal_op.start.day)

\* C4 witness: a holiday that is a weekday is reported as no trading day
C4_Witness ==
    /\ cal_op.op = "is_trading_day"
    /\ cal_op.start.tod = 0
    /\ cal_op.start.day \in Holidays
    /\ weekday(cal_op.start) < 5
    /\ cal_op.flag = FALSE

\* C5: count_trading_days_between(start, end) is the number of dates t with
\* start <= t <= end for which is_trading_day(t) holds; it is 0 when end is before
\* start, and n + 1 from a trading day d to add_trading_days(d, n).
C5_CountInclusive ==
    (cal_op.op = "count_trading_days_between") =>
        LET s == cal_op.start.day
            e == cal_op.end.day
        IN  /\ cal_op.count
                  = Cardinality({t \in s..e : is_trading_day(Midnight(t))})
            /\ e < s => cal_op.count = 0
            /\ \A n \in 0..MaxN :
                   (/\ is_trading_day(Midnight(s))
                    /\ e = add_trading_days(Midnight(s), n).day)
                       => cal_op.count = n + 1

\* C5 witness: a count from a trading day over a holiday to the day five trading
\* days later
C5_Witness ==
    /\ cal_op.op = "count_trading_days_between"
    /\ is_trading_day(Midnight(cal_op.start.day))
    /\ \E h \in Holidays : cal_op.start.day < h /\ h < cal_op.end.day
    /\ cal_op.end.day = add_trading_days(Midnight(cal_op.start.day), 5).day
    /\ cal_op.count = 6

\* C6 as claimed: for every start date d, also a Saturday, a Sunday or a holiday,
\* add_trading_days(d, 0) returns d itself.
C6_ZeroIsNoOp ==
    (cal_op.op = "add_trading_days" /\ cal_op.n = 0) => cal_op.date = cal_op.start

\* C6 amended: add_trading_days(d, 0) returns d itself when the date of d is a
\* trading day, and otherwise the first trading day after d at the time of day of d.
C6_ZeroRollsForward ==
    (cal_op.op = "add_trading_days" /\ cal_op.n = 0) =>
        LET d == cal_op.start.day
            r == cal_op.date.day
        IN  /\ cal_op.date.tod = cal_op.start.tod
            /\ TradingDate(d) => r = d
            /\ ~TradingDate(d) =>
                   /\ r > d
                   /\ TradingDate(r)
                   /\ \A t \in (d + 1)..(r - 1) : ~TradingDate(t)

\* C6 witness: a Saturday plus zero trading days is the following Monday
C6_Witness ==
    /\ cal_op.op = "add_trading_days"
    /\ cal_op.n = 0
    /\ weekday(cal_op.start) = 5
    /\ cal_op.date.day = cal_op.start.day + 2

\* C7 as claimed: for every class name p a predictor can be constructed with,
\* get_prediction_target_date(p, d) = add_trading_days(d, h) with h the
\* forecast_days StockPredictor(p) uses, also for a name outside the three classes.
C7_TargetDateUsesPredictorHorizon ==
    (cal_op.op = "get_prediction_target_date") =>
        cal_op.date = add_trading_days(cal_op.start, forecast_days_of(cal_op.ptype))

(***************************************************************************)
(* Properties of the predictor (SpecPred).                                 *)
(***************************************************************************)

C9_InsufficientDataKeepsArtifact ==
    /\ (last.op = "train_models" /\ last.insufficient /\ last.err # "ValueError") =>
           /\ last.err = "InsufficientData"
           /\ ModelPackage(last.after) = ModelPackage(last.before)
           /\ LatestOf(disk, last.before.prediction_type) = last.latest_before
    /\ (last.op = "save_models" /\ last.before.last_train = "empty") =>
           LatestOf(disk, last.before.prediction_type) = last.latest_before

\* The state C9 warns of: a run that returned no metrics, then save_models, and the
\* latest file of the class no longer holds the artifact it held
C9_LatestOverwritten ==
    /\ last.op = "save_models"
    /\ last.before.last_train = "empty"
    /\ last.latest_before.prediction_type # "absent"
    /\ last.latest_before.scaler # 0
    /\ LatestOf(disk, last.before.prediction_type).scaler = 0

C9_NeverOverwritten == ~C9_LatestOverwritten

\* C10 as claimed: after any train_models call either the feature names, the
\* scaler and the three models all come from that run, or the call failed and all
\* of them are those in effect before the call.
C10_TrainingAtomic ==
    (last.op = "train_models") =>
        \/ /\ last.after.feature_names = last.run
           /\ last.after.scaler = last.run
           /\ \A m \in ModelNames : last.after.models[m] = last.run
        \/ /\ (last.err # "none" \/ last.ret = "empty")
           /\ ModelPackage(last.after) = ModelPackage(last.before)

\* C14: the horizon profile of a predictor is immutable after construction:
\* across train_models, save_models, load_models (with or without an explicit
\* model file) and predict, its prediction type, forecast horizon and return
\* threshold stay those it was constructed with.
C14_HorizonProfileImmutable ==
    /\ pred.prediction_type = pred.constructed_as
    /\ pred.forecast_days = forecast_days_of(pred.constructed_as)
    /\ get_threshold(pred) = Get(thresholds, pred.constructed_as, 2)

\* what predict gives for a series: the error raised or the kind of value returned
PredictOutcome(self, rows, fail) ==
    LET out == predict(self, rows, fail) IN <<out.err, out.ret>>

\* C12: save/load round trip.  For every predictor, a fresh predictor of the
\* same class that calls load_models on what save_models wrote has the same
\* models, scaler, feature names, prediction type and forecast horizon, and
\* predict gives the same result for the same series; the load_models calls
\* made give the predictor exactly the package of the file.
C12_SaveLoadRoundTrip ==
    /\ LET files == save_models(pred, disk, clock)
           fresh == StockPredictor(pred.prediction_type)
           loaded == load_models(fresh, files, None)
       IN  /\ loaded.err = "none"
           /\ ModelPackage(loaded.pred) = ModelPackage(pred)
           /\ \A rows \in RowChoices, fail \in {"none", "features"} :
                PredictOutcome(loaded.pred, rows, fail) = PredictOutcome(pred, rows, fail)
    /\ (last.op = "save_models"
        => LatestOf(disk, pred.prediction_type) = ModelPackage(pred))
    /\ (last.op = "load_models" /\ last.err = "none"
        => ModelPackage(pred) = last.latest_before)

\* C12 witness: a fresh predictor has loaded the latest file that a trained
\* predictor of its class saved
C12_Witness ==
    /\ last.op = "load_models"
    /\ last.err = "none"
    /\ last.before = StockPredictor(pred.prediction_type)
    /\ pred.feature_names # 0
    /\ pred.scaler # 0
    /\ \A m \in ModelNames : pred.models[m] # 0

\* C13: a save_models never overwrites a timestamped artifact file written by
\* an earlier call, two saves of one class within the same second included.
C13_StampedFilesNeverRewritten ==
    [][\A f \in DOMAIN disk :
          f.kind = "stamped" => (f \in DOMAIN disk' /\ disk'[f] = disk[f])]_vars

\* C15: a predict call leaves the predictor's models, scaler, feature names and
\* horizon as they were and writes nothing to the model directory.
C15_PredictReadOnly ==
    [][last'.op = "predict" /\ calls' = calls + 1
         => /\ ModelPackage(pred') = ModelPackage(pred)
            /\ pred' = pred
            /\ disk' = disk]_vars

\* C15 witness: predict has returned a prediction from a loaded artifact
C15_Witness ==
    /\ last.op = "predict"
    /\ last.ret = "prediction"
    /\ last.before.loaded
    /\ pred = last.before

NaNColumns(frame) ==
    {c \in DOMAIN frame : \E i \in Rows(frame[c]) : frame[c][i] = NaN}

\* C1: for every valid OHLCV series of at least 50 rows, series shorter than
\* the 200-row window and constant prices included, calculate_all_features
\* returns a frame with as many rows as the input and no NaN in any column.
C1_FeaturesCompleteNoNaN ==
    (/\ fe_res.status # "idle"
     /\ fe_df.kind \in {"varying", "constant"}
     /\ fe_df.rows >= 50)
    => /\ fe_res.status = "returned"
       /\ \A c \in DOMAIN fe_res.frame : Len(fe_res.frame[c]) = fe_df.rows
       /\ NaNColumns(fe_res.frame) = {}

\* C2: for every input of fewer than 50 rows, the empty one included,
\* calculate_all_features returns the input unchanged: same columns, same
\* values, no derived column, no error.
C2_ShortReturnedUnchanged ==
    (fe_res.status # "idle" /\ fe_df.rows < 50)
    => /\ fe_res.status = "returned"
       /\ fe_res.same
       /\ DOMAIN fe_res.frame = DOMAIN fe_df.cols
       /\ \A c \in DOMAIN fe_df.cols : fe_res.frame[c] = fe_df.cols[c]

\* C2 witness: a frame of 49 rows went through calculate_all_features, next
\* to an empty one and one that lacks a required column
C2_Witness ==
    /\ fe_res.status = "returned"
    /\ fe_df.rows = 49
    /\ fe_df.kind = "varying"
    /\ DOMAIN fe_res.frame = required_cols

(***************************************************************************)
(* Properties of the artifact files under concurrent access (SpecStore).   *)
(***************************************************************************)

\* C11: the latest artifact of a class is replaced atomically: a load_models
\* that runs while a save_models of the same class is in progress observes a
\* complete artifact (the previous or the new one), never a partly written file.
C11_LoadNeverSeesPartialFile ==
    loader.status # "truncated"

(***************************************************************************)
(* Properties of a prediction result (SpecInfer).                          *)
(***************************************************************************)

\* C16: in every prediction result, confidence is the arithmetic mean of the
\* two classifiers' positive-class probabilities, lies in [0, 1], and direction
\* is "up" exactly when confidence > 0.5 and "down" otherwise.
C16_ConfidenceAndDirection ==
    infer.result.status = "prediction"
    => LET r == infer.result IN
       /\ 2 * ProbScale * r.confidence = r.confidence_den * (infer.xgb_proba + infer.lgb_proba)
       /\ 0 <= r.confidence
       /\ r.confidence <= r.confidence_den
       /\ r.direction \in {"up", "down"}
       /\ (r.direction = "up") <=> (2 * r.confidence > r.confidence_den)

\* C16 witness: a prediction whose confidence is exactly one half, direction down
C16_Witness ==
    /\ infer.result.status = "prediction"
    /\ 2 * infer.result.confidence = infer.result.confidence_den
    /\ infer.xgb_proba # infer.lgb_proba
    /\ infer.result.direction = "down"

\* C17: in every prediction result the stop-loss is on the adverse side of the
\* current price: with the atr_14 feature, current_price - 2*ATR for up and
\* current_price + 2*ATR for down; without it, 3% of the current price below
\* (up) or above (down).
C17_StopLossAdverse ==
    /\ infer.result.status = "prediction"
       => LET r == infer.result
              price == 100 * r.current_price
          IN  /\ "atr_14" \in infer.columns
                 => r.stop_loss = IF r.direction = "up" THEN price - 2 * infer.atr
                                  ELSE price + 2 * infer.atr
              /\ "atr_14" \notin infer.columns
                 => r.stop_loss = IF r.direction = "up" THEN price - 3 * r.current_price
                                  ELSE price + 3 * r.current_price
              /\ r.direction = "up" => r.stop_loss <= price
              /\ r.direction = "down" => r.stop_loss >= price
    /\ \A current_price \in 100..105, atr \in AtrCents :
        /\ stop_loss_of({"atr_14"}, "up", current_price, atr) = 100 * current_price - 2 * atr
        /\ stop_loss_of({"atr_14"}, "down", current_price, atr) = 100 * current_price + 2 * atr
        /\ stop_loss_of({}, "up", current_price, atr) = 100 * current_price - 3 * current_price
        /\ stop_loss_of({}, "down", current_price, atr) = 100 * current_price + 3 * current_price

\* C17 witness: a down prediction with a positive ATR, stop-loss above the price
C17_Witness ==
    /\ infer.result.status = "prediction"
    /\ infer.result.direction = "down"
    /\ "atr_14" \in infer.columns
    /\ infer.atr > 0
    /\ infer.result.stop_loss = 100 * infer.result.current_price + 2 * infer.atr

\* C18: predict fails whenever the feature columns the feature engine produces
\* for the live series differ from the feature names of the artifact (a column
\* missing, or a column the artifact does not list): a prediction is returned
\* only when the two sets are equal.
C18_SchemaMismatchFails ==
    infer.result.status = "prediction"
    => (infer.columns \ exclude_cols) = infer.feature_names

(***************************************************************************)
(* Properties of the training labels (SpecLabels).                         *)
(***************************************************************************)

\* C20: for a series of n rows with defined closes and horizon h,
\* prepare_training_data keeps exactly the rows t with t + h within the series
\* (the last h rows are dropped), sets future_return[t] = close[t+h]/close[t] - 1
\* and target_return[t] = future_return[t], and target[t] = 1 exactly when
\* future_return[t] is strictly greater than the class threshold, else 0.
C20_LabelConstruction ==
    labels.result.status = "returned"
    => LET r == labels.result
           close == fe_df.cols["close"]
           n == fe_df.rows
           h == forecast_days_of(labels.prediction_type)
           threshold == Get(thresholds, labels.prediction_type, 2)
       IN  /\ r.index = {t \in 1..n : t + h <= n}
           /\ \A t \in r.index :
                /\ r.future_return[t].num = close[t + h] - close[t]
                /\ r.future_return[t].den = close[t]
                /\ r.target_return[t] = r.future_return[t]
                /\ r.target[t] \in {0, 1}
                /\ (r.target[t] = 1)
                   <=> (100 * (close[t + h] - close[t]) > threshold * close[t])

\* C20 witness: a swing-class frame of 70 rows was labeled: 65 rows kept,
\* some labeled 1 and some 0
C20_Witness ==
    /\ labels.result.status = "returned"
    /\ labels.prediction_type = "swing"
    /\ fe_df.rows = 70
    /\ Cardinality(labels.result.index) = 65
    /\ \E t \in labels.result.index : labels.result.target[t] = 1
    /\ \E t \in labels.result.index : labels.result.target[t] = 0

(***************************************************************************)
(* The time of day in is_trading_day (SpecCal).                            *)
(***************************************************************************)

\* C28: is_trading_day depends only on the calendar date of its argument: for
\* every datetime, whatever its time of day, it answers as it does for midnight
\* of the same date, so it is false at any time on a holiday.
C28_IsTradingDayIgnoresTime ==
    cal_op.op = "is_trading_day"
    => cal_op.flag = is_trading_day(Midnight(cal_op.start.day))

(***************************************************************************)
(* The caller's frame (SpecLabels).                                        *)
(***************************************************************************)

\* C29: a call of the feature engine or of the predictor leaves the caller's raw
\* series as it was: when prepare_training_data returns or raises, the input
\* frame has the columns and values it had before the call, for every input
\* length, fewer than 50 rows included.
C29_CallerFrameUntouched ==
    [][(labels.result.status = "idle" /\ labels'.result.status # "idle")
       => fe_df' = fe_df]_vars

(***************************************************************************)
(* The vector given to the scaler in predict (SpecInfer).                  *)
(***************************************************************************)

\* C23: in predict every infinite or undefined value among the selected
\* features of the latest row is replaced by a finite substitute before scaling:
\* when a prediction is returned, the vector passed to the scaler and the
\* models holds no undefined and no infinite entry.
C23_ScalerInputFinite ==
    infer.result.status = "prediction"
    => \A c \in DOMAIN infer.X :
          \A i \in Rows(infer.X[c]) : infer.X[c][i] \notin {NaN, Inf, NegInf}

(***************************************************************************)
(* Properties of the training data path (SpecTrain).                       *)
(***************************************************************************)

\* C21: the column means that fill the undefined feature cells in training are
\* computed over the leading training partition only: two series that differ
\* only in rows of the held-out trailing 20% give the same training partition,
\* as passed to the scaler and as passed to the models.
C21_TailNeverReachesTraining ==
    train.pc = "done"
    => /\ train.a.X_train = train.b.X_train
       /\ train.a.X_train_scaled = train.b.X_train_scaled

\* C22: the split is chronological and unshuffled: with n labeled rows the
\* training partition is the first floor(0.8 n) rows in input order and the test
\* partition the remaining rows, every training row precedes every test row, the
\* partitions are disjoint and cover all rows, and the scaler is fitted on the
\* training partition only and merely applied to the test partition.
C22_ChronologicalSplit ==
    train.pc = "done"
    => LET r == train.a
           n == train.n
           k == (8 * n) \div 10
           Labels(s) == {s[i] : i \in DOMAIN s}
       IN  /\ r.split_idx = k
           /\ r.train_index = [i \in 1..k |-> i]
           /\ r.test_index = [i \in 1..(n - k) |-> k + i]
           /\ \A i \in Labels(r.train_index), j \in Labels(r.test_index) : i < j
           /\ Labels(r.train_index) \cap Labels(r.test_index) = {}
           /\ Labels(r.train_index) \cup Labels(r.test_index) = 1..n
           /\ \A c \in DOMAIN r.X :
                /\ r.X_train[c] = [i \in 1..k |-> r.X[c][i]]
                /\ r.X_test[c] = [i \in 1..(n - k) |-> r.X[c][k + i]]
                /\ r.scaler[c].mean_ = column_mean(r.X_train[c])
                /\ \A i \in 1..k :
                     r.X_train_scaled[c][i]
                       = (100 * (r.X[c][i] - r.scaler[c].mean_)) \div r.scaler[c].scale_
                /\ \A i \in 1..(n - k) :
                     r.X_test_scaled[c][i]
                       = (100 * (r.X[c][k + i] - r.scaler[c].mean_)) \div r.scaler[c].scale_
           /\ LET target == df_prepared_of(n, train.hole, train.hole_value,
                                           train.tail_a).target
              IN  /\ r.y_train = [i \in 1..k |-> target[i]]
                  /\ r.y_test = [i \in 1..(n - k) |-> target[k + i]]

\* C22 witness: 101 labeled rows were split into the first 80 and the last 21,
\* and the trailing rows carry a level the leading rows lack
C22_Witness ==
    /\ train.pc = "done"
    /\ train.n = 101
    /\ train.tail_a = 70
    /\ Len(train.a.train_index) = 80
    /\ Len(train.a.test_index) = 21
    /\ train.a.scaler["rsi_14"].mean_ < 20

(***************************************************************************)
(* Causality of the feature groups (SpecCausal).                           *)
(***************************************************************************)

\* C24: every feature group is causal before the fill: for two series of the
\* same length that agree on all rows up to t, every derived column has the same
\* value at row t, the volatility-regime label included; no derived value at
\* row t depends on a row after t.
C24_FeatureGroupsCausal ==
    (causal.pc = "done" /\ causal.a.status = "returned" /\ causal.b.status = "returned")
    => \A c \in DOMAIN causal.a.row : causal.a.row[c] = causal.b.row[c]

(***************************************************************************)
(* Properties of the background task manager (SpecTasks).                  *)
(***************************************************************************)

\* C25: start is a no-op when the manager is already running (it creates no
\* task and leaves tasks alone), and after any sequence of start calls without
\* a stop exactly one scheduler task has been created and is tracked in tasks.
C25_StartIdempotent ==
    /\ [] ((mgr.starts >= 1 /\ mgr.stops = 0)
           => /\ mgr.running
              /\ mgr.created = 1
              /\ mgr.tasks = <<1>>
              /\ Live(mgr, 1))
    /\ [][(mgr.running /\ mgr'.starts = mgr.starts + 1)
          => /\ mgr'.tasks = mgr.tasks
             /\ mgr'.created = mgr.created
             /\ mgr'.state = mgr.state
             /\ mgr'.running]_vars

\* C25 witness: three start calls and no stop, one task
C25_Witness ==
    /\ mgr.starts = 3
    /\ mgr.stops = 0
    /\ mgr.created = 1
    /\ Len(mgr.tasks) = 1

\* C27: under any interleaving of start and stop coroutines, once all calls
\* have returned, running is true if and only if exactly one live scheduler
\* task is tracked in tasks, and running is false if and only if tasks is empty
\* and no scheduler task is alive.
C27_ConsistentWhenQuiescent ==
    (\A s \in StopIds : mgr.stop[s].pc # "awaiting")
    => /\ mgr.running
          <=> Cardinality({i \in DOMAIN mgr.tasks : Live(mgr, mgr.tasks[i])}) = 1
       /\ (~ mgr.running)
          <=> (mgr.tasks = <<>> /\ \A t \in TaskIds : ~ Live(mgr, t))

(***************************************************************************)
(* Properties of the daily-update scheduler (SpecSched).                   *)
(***************************************************************************)

\* C26: while the manager is running, the scheduler runs the daily update every
\* day at 18:00: for every current time the computed next run is the first 18:00
\* strictly after now (today before 18:00, tomorrow otherwise, the last day of a
\* month included), and no day's 18:00 run is skipped or delayed.
C26_DailyAtEighteen ==
    sched.running
    => /\ sched.pc = "sleeping"
       /\ sched.next_run > sched.computed_at
       /\ hour_of(sched.next_run) = TargetHour
       /\ sched.next_run - sched.computed_at <= 24
       /\ \A t \in (sched.started + 1)..sched.now :
            (hour_of(t) = TargetHour /\ (t < sched.now \/ sched.wake # t))
            => t \in sched.updates

(***************************************************************************)
(* Properties of the daily update (SpecDaily).                             *)
(***************************************************************************)

\* C30: run_daily_update replaces the stored predictions safely: it deletes the
\* old predictions only after at least one price update succeeded; if generating
\* the new predictions then fails, the rollback of its error handler leaves the
\* previously stored predictions in the table; and a run that started with a
\* non-empty table never leaves the table empty.
C30_PredictionsReplacedSafely ==
    /\ (daily.deleted \/ daily.pending_delete) => daily.successful >= 1
    /\ (daily.pc = "raised" /\ daily.raised_in = "generate")
       => daily.table = daily.at_start
    /\ (daily.pc \in {"returned", "raised"} /\ daily.at_start.old > 0)
       => daily.table.old + daily.table.new > 0

====
